---- MODULE Spec2Model ----
(***************************************************************************)
(* A model of caustics' StateDict snapshot object                          *)
(* (src/src/caustics/sims/state_dict.py), the file helper it saves         *)
(* through (src/src/caustics/io.py) and the Simulator over a graph of      *)
(* Parametrized modules (src/src/caustics/sims/simulator.py).              *)
(*                                                                         *)
(* Conventions                                                             *)
(*   - a name (a dict key, a file name, a path) is a sequence of tokens;   *)
(*     "." and "/" are tokens of their own, so that joining, splitting and *)
(*     suffix extraction are computed and not assumed;                     *)
(*   - an ordered mapping (dict / OrderedDict) is a sequence of records    *)
(*     [k |-> key, v |-> value] with pairwise distinct keys;               *)
(*   - a tensor is one of the strings of Tensors, Python's None is None.   *)
(***************************************************************************)
EXTENDS Integers, Sequences, FiniteSets, TLC

VARIABLES
    now,     \* the wall clock read by datetime.now(), in ticks
    sd,      \* the StateDict object the caller holds
    fs,      \* the file system: the set of [path, data] files written
    last,    \* the last operation the caller applied and how it ended
    out,     \* the value returned by the last to_params()
    loaded,  \* the object rebuilt by the last load
    nops,    \* number of operations applied so far
    graph,   \* the Parametrized modules: id -> name, class, parameters, childs
    snap,    \* the results of the last two Simulator.state_dict() calls
    call,    \* the outcome of the last Simulator.__call__
    trav,    \* the _get_traversal_order call in progress: its queues
    evals    \* the cosmology evaluations in progress, one per thread

simvars == <<graph, snap, call, trav, evals>>
vars == <<now, sd, fs, last, out, loaded, nops, graph, snap, call, trav, evals>>

----------------------------------------------------------------------------
(* Bounds of the model *)

MaxTime == 3          \* the clock stops advancing here
TicksPerSecond == 2   \* clock ticks (sub-second resolution) per second
MaxOps == 3           \* operations applied to the objects in one behaviour
MaxVisits == 8        \* names one _get_traversal_order call may put out

----------------------------------------------------------------------------
(* Values *)

None == "None"
Tensors == {"t1", "t2"}
NoExc == "none"

\* state_dict.py:13  IMMUTABLE_ERR = TypeError("'StateDict' cannot be modified ...")
IMMUTABLE_ERR == "TypeError: 'StateDict' cannot be modified after creation."
\* state_dict.py:14
STATIC_PARAMS == <<"static">>
\* state_dict.py:7  from .._version import __version__
VERSION == <<"0", ".", "7", ".", "0">>

K1 == <<"var1">>
K2 == <<"var2">>
KZ == <<"zz">>

----------------------------------------------------------------------------
(* Ordered mappings *)

KeysOf(m) == {m[i].k : i \in DOMAIN m}
HasKey(m, k) == \E i \in DOMAIN m : m[i].k = k
IndexOf(m, k) == CHOOSE i \in DOMAIN m : m[i].k = k
Get(m, k) == m[IndexOf(m, k)].v
\* dict.__setitem__: a present key keeps its position, a new key goes last
Put(m, k, v) ==
    IF HasKey(m, k) THEN [m EXCEPT ![IndexOf(m, k)] = [k |-> k, v |-> v]]
    ELSE Append(m, [k |-> k, v |-> v])
Remove(m, k) == SelectSeq(m, LAMBDA e : e.k # k)
Pairs(m) == {<<m[i].k, m[i].v>> : i \in DOMAIN m}
Distinct(m) == \A i, j \in DOMAIN m : m[i].k = m[j].k => i = j

----------------------------------------------------------------------------
(* Time: datetime.now(), datetime.isoformat(), datetime.strftime()          *)

Seconds(t) == t \div TicksPerSecond
Fraction(t) == t % TicksPerSecond

\* datetime.isoformat(): the seconds, and the sub-second part unless it is zero
isoformat(t) ==
    <<ToString(Seconds(t))>> \o
    (IF Fraction(t) = 0 THEN <<>> ELSE <<".", ToString(Fraction(t))>>)

\* (variant: the default name taken from the clock at the time of the call)
st_file_now(t) == <<ToString(Seconds(now)), "_caustics", ".", "st">>

\* state_dict.py:136-139  strftime("%Y%m%dT%H%M%S_caustics.st"): whole seconds
st_file(t) == <<ToString(Seconds(t)), "_caustics", ".", "st">>

----------------------------------------------------------------------------
(* ImmutableODict: an object [items, created]; created is hasattr(_created) *)
(* Every operation returns [o |-> the object afterwards, exc |-> outcome].  *)

Ok(o) == [o |-> o, exc |-> NoExc]
Raise(o, e) == [o |-> o, exc |-> e]

\* (variant: __setitem__ without the _created test)
ImmutableODict_setitem_unguarded(o, k, v) ==
    Ok([o EXCEPT !.items = Put(@, k, v)])

\* state_dict.py:25-28
ImmutableODict_setitem(o, k, v) ==
    IF o.created THEN Raise(o, IMMUTABLE_ERR)
    ELSE Ok([o EXCEPT !.items = Put(@, k, v)])

\* state_dict.py:22-23
ImmutableODict_delitem(o, k) == Raise(o, IMMUTABLE_ERR)

\* OrderedDict.update / __init__: one __setitem__ per pair, in order; the
\* first exception ends it
RECURSIVE OrderedDict_update(_, _)
OrderedDict_update(o, m) ==
    IF m = <<>> THEN Ok(o)
    ELSE LET r == ImmutableODict_setitem(o, Head(m).k, Head(m).v)
         IN  IF r.exc # NoExc THEN r ELSE OrderedDict_update(r.o, Tail(m))

\* OrderedDict.setdefault: a present key is only read, an absent one is
\* stored through __setitem__
OrderedDict_setdefault(o, k, d) ==
    IF HasKey(o.items, k) THEN Ok(o) ELSE ImmutableODict_setitem(o, k, d)

\* OrderedDict.pop / popitem / clear / move_to_end are inherited unchanged:
\* they work on the underlying dict and never call __delitem__/__setitem__
\* (clear and move_to_end in every CPython, pop and popitem since 3.11 and in
\* the pure-Python OrderedDict)
OrderedDict_pop(o, k) ==
    IF HasKey(o.items, k) THEN Ok([o EXCEPT !.items = Remove(@, k)])
    ELSE Raise(o, "KeyError")

OrderedDict_popitem(o, lastflag) ==
    IF o.items = <<>> THEN Raise(o, "KeyError")
    ELSE Ok([o EXCEPT !.items =
                IF lastflag THEN SubSeq(@, 1, Len(@) - 1) ELSE Tail(@)])

OrderedDict_clear(o) == Ok([o EXCEPT !.items = <<>>])

OrderedDict_move_to_end(o, k, lastflag) ==
    IF ~HasKey(o.items, k) THEN Raise(o, "KeyError")
    ELSE LET e == [k |-> k, v |-> Get(o.items, k)]
             rest == Remove(o.items, k)
         IN  Ok([o EXCEPT !.items =
                    IF lastflag THEN Append(rest, e) ELSE <<e>> \o rest])

\* state_dict.py:18-20  __init__: fill the dict, then set _created
ImmutableODict_init(m) ==
    LET r == OrderedDict_update([items |-> <<>>, created |-> FALSE], m)
    IN  [r.o EXCEPT !.created = TRUE]

----------------------------------------------------------------------------
(* StateDict: [items, has, ctime, meta]                                     *)
(*   has   the slots of __slots__ (state_dict.py:47) that hold a value      *)
(*   ctime the value of _created_time, meta the ImmutableODict _metadata    *)

Slots == {"_metadata", "_created", "_created_time"}

\* the StateDict seen as the ImmutableODict it inherits from
AsODict(s) == [items |-> s.items, created |-> "_created" \in s.has]
WithODict(s, o) == [s EXCEPT !.items = o.items]

\* (variant: the creation time recorded to the second only)
Metadata_seconds(t) ==
    << [k |-> <<"software_version">>, v |-> VERSION],
       [k |-> <<"created_time">>, v |-> <<ToString(Seconds(t))>>] >>

\* state_dict.py:53-56
Metadata(t) ==
    << [k |-> <<"software_version">>, v |-> VERSION],
       [k |-> <<"created_time">>, v |-> isoformat(t)] >>

\* state_dict.py:49-62
StateDict_init(m, t) ==
    LET filled == ImmutableODict_init(m)
    IN  [ items |-> filled.items,
          has   |-> {"_created_time", "_metadata"} \cup
                    (IF filled.created THEN {"_created"} ELSE {}),
          ctime |-> t,
          meta  |-> ImmutableODict_init(Metadata(t)) ]

\* state_dict.py:30-33  __setattr__ (value: [t, m], read by the slot set)
ImmutableODict_setattr(s, name, value) ==
    IF "_created" \in s.has THEN Raise(s, IMMUTABLE_ERR)
    ELSE Ok([s EXCEPT !.has = @ \cup {name},
                       !.ctime = IF name = "_created_time" THEN value.t ELSE @,
                       !.meta = IF name = "_metadata"
                                THEN ImmutableODict_init(value.m) ELSE @])

\* object.__delattr__ (not overridden): empties a slot that holds a value
StateDict_delattr(s, name) ==
    IF name \in s.has THEN Ok([s EXCEPT !.has = @ \ {name}])
    ELSE Raise(s, "AttributeError")

----------------------------------------------------------------------------
(* Parameters and parameter collections                                     *)
(* A Parameter is [value]; a module is [name, params], params an ordered    *)
(* mapping of parameter name -> Parameter; a collection handed to           *)
(* from_params is [nested, d]: d the mapping, nested whether it is a        *)
(* NestedNamespaceDict.                                                     *)

Parameter(v) == [value |-> v]
static(p) == p.value # None

ParamValues == Tensors \cup {None}

\* the module graphs parameter collections are taken from: a simulator with
\* a scalar parameter and a cosmology with two
Trees ==
    { << [name |-> <<"sim">>,
          params |-> << [k |-> <<"z_s">>, v |-> Parameter(a)] >>],
         [name |-> <<"cosmo">>,
          params |-> << [k |-> <<"h0">>, v |-> Parameter(b)],
                        [k |-> <<"Om0">>, v |-> Parameter(c)] >>] >>
      : a \in Tensors, b \in ParamValues, c \in ParamValues }

\* the parameters of one module that are static (want = TRUE) or dynamic
OwnParams(mod, want) == SelectSeq(mod.params, LAMBDA e : static(e.v) = want)

\* Parametrized.params: module name -> parameter name -> Parameter, one
\* nested mapping for the static and one for the dynamic parameters; a module
\* with no parameter of a kind has no entry in that mapping
RECURSIVE Group(_, _)
Group(tree, want) ==
    IF tree = <<>> THEN <<>>
    ELSE LET own == OwnParams(Head(tree), want)
             rest == Group(Tail(tree), want)
         IN  IF own = <<>> THEN rest
             ELSE <<[k |-> Head(tree).name, v |-> own]>> \o rest

params(tree) ==
    [ nested |-> TRUE,
      d |-> << [k |-> STATIC_PARAMS, v |-> Group(tree, TRUE)],
               [k |-> <<"dynamic">>, v |-> Group(tree, FALSE)] >> ]

\* NestedNamespaceDict.flatten: "module.param" keys, in traversal order
RECURSIVE FlattenInto(_, _, _)
FlattenInto(acc, prefix, m) ==
    IF m = <<>> THEN acc
    ELSE FlattenInto(Put(acc, prefix \o <<".">> \o Head(m).k, Head(m).v),
                     prefix, Tail(m))

RECURSIVE FlattenFrom(_, _)
FlattenFrom(acc, nested) ==
    IF nested = <<>> THEN acc
    ELSE FlattenFrom(FlattenInto(acc, Head(nested).k, Head(nested).v),
                     Tail(nested))

flatten(nested) == FlattenFrom(<<>>, nested)

\* NamespaceDict.unflatten: each qualified key is split at its first "." into
\* the module's name and the parameter's name; the modules come in the order
\* of their first key, the parameters of a module in the order of their keys
FirstDot(key) == CHOOSE i \in DOMAIN key :
                     key[i] = "." /\ \A j \in 1..(i - 1) : key[j] # "."
KeyModule(key) == SubSeq(key, 1, FirstDot(key) - 1)
KeyParam(key) == SubSeq(key, FirstDot(key) + 1, Len(key))

RECURSIVE UnflattenInto(_, _)
UnflattenInto(acc, flat) ==
    IF flat = <<>> THEN acc
    ELSE LET m == KeyModule(Head(flat).k)
             own == IF HasKey(acc, m) THEN Get(acc, m) ELSE <<>>
         IN  UnflattenInto(Put(acc, m, Put(own, KeyParam(Head(flat).k), Head(flat).v)),
                           Tail(flat))

unflatten(flat) == UnflattenInto(<<>>, flat)

\* the flat NamespaceDict of the static parameters of a graph, and the flat
\* mapping of all its parameters (static and dynamic merged per module)
FlatStatic(tree) == [nested |-> FALSE, d |-> flatten(Group(tree, TRUE))]
FlatAll(tree) ==
    [nested |-> FALSE,
     d |-> flatten([i \in DOMAIN tree |->
                        [k |-> tree[i].name, v |-> tree[i].params]])]

\* (variant: the nested form is not narrowed to its static part)
tensors_dict_merged(p) ==
    LET flat == IF p.nested
                THEN flatten(Get(p.d, STATIC_PARAMS)) \o flatten(Get(p.d, <<"dynamic">>))
                ELSE p.d
    IN  [i \in DOMAIN flat |-> [k |-> flat[i].k, v |-> flat[i].v.value]]

\* (variant: the flattened entries are taken last first)
tensors_dict_reversed(p) ==
    LET flat == IF p.nested /\ HasKey(p.d, STATIC_PARAMS)
                THEN flatten(Get(p.d, STATIC_PARAMS))
                ELSE p.d
    IN  [i \in DOMAIN flat |-> [k |-> flat[Len(flat) + 1 - i].k,
                                v |-> flat[Len(flat) + 1 - i].v.value]]

\* state_dict.py:82-84  the name -> value dict from_params hands to cls()
tensors_dict(p) ==
    LET flat == IF p.nested /\ HasKey(p.d, STATIC_PARAMS)
                THEN flatten(Get(p.d, STATIC_PARAMS))
                ELSE p.d
    IN  [i \in DOMAIN flat |-> [k |-> flat[i].k, v |-> flat[i].v.value]]

\* state_dict.py:64-85
StateDict_from_params(p, t) == StateDict_init(tensors_dict(p), t)

\* state_dict.py:87-101
StateDict_to_params(s) ==
    [i \in DOMAIN s.items |-> [k |-> s.items[i].k, v |-> Parameter(s.items[i].v)]]

\* OrderedDict.__eq__ between two StateDicts: same pairs in the same order
\* (attributes such as _metadata take no part)
StateDictEq(a, b) == a.items = b.items

----------------------------------------------------------------------------
(* Paths (pathlib) and files                                                *)

\* Path(str): trailing separators are dropped
RECURSIVE Path(_)
Path(q) ==
    IF Len(q) > 1 /\ q[Len(q)] = "/" THEN Path(SubSeq(q, 1, Len(q) - 1)) ELSE q

\* the file_path arguments a caller passes to save(): kind is the Python
\* type of the argument, p its text
NoPath == [kind |-> "None", p |-> <<>>]
EmptyStr == [kind |-> "str", p |-> <<>>]
ExplicitPaths ==
    { <<"a", ".", "st">>,
      <<"a", ".", "st", "/">>,
      <<"a", ".", "txt">>,
      <<"a">>,
      <<".", "st">>,
      <<"a", ".", "st", ".", "bak">>,
      <<"d", ".", "st", "/", "a">>,
      <<"x", "/", "b", ".", "st">> }
FilePaths ==
    {NoPath, EmptyStr} \cup
    { [kind |-> "str", p |-> q] : q \in ExplicitPaths } \cup
    { [kind |-> "Path", p |-> Path(q)] : q \in ExplicitPaths }

LastIndex(q, tok) ==
    IF \E i \in DOMAIN q : q[i] = tok
    THEN CHOOSE i \in DOMAIN q : q[i] = tok /\ \A j \in DOMAIN q : q[j] = tok => j <= i
    ELSE 0

\* PurePath.name / .parent / .suffix
PathName(q) == SubSeq(q, LastIndex(q, "/") + 1, Len(q))
PathParent(q) == SubSeq(q, 1, LastIndex(q, "/") - 1)
PathSuffix(q) ==
    LET name == PathName(q)
        i == LastIndex(name, ".")
    IN  IF 1 < i /\ i < Len(name) THEN SubSeq(name, i, Len(name)) ELSE <<>>

\* state_dict.py:130
ext == <<".", "st">>

\* Path.absolute() of a relative path: the current directory in front
Absolute(q) == <<"/", "cwd", "/">> \o q
\* the directories that exist: the current one
ExistingDirs == { <<>> }

\* the order safetensors writes tensors in: by name
SortedNames ==
    << <<"cosmo", ".", "Om0">>, <<"cosmo", ".", "h0">>, <<"sim", ".", "z_s">>,
       <<"var1">>, <<"var2">>, <<"zz">> >>

\* safetensors' save(tensors, metadata): a header naming each tensor and
\* where its data lies, the data, and the metadata block; [ok, bytes]
Serialize(items, metadata) ==
    LET names == SelectSeq(SortedNames, LAMBDA n : HasKey(items, n))
    IN  [ header |-> [i \in DOMAIN names |-> [name |-> names[i], off |-> i]],
          data |-> [i \in DOMAIN names |-> Get(items, names[i])],
          metadata |-> Pairs(metadata) ]

NoBytes == [header |-> <<>>, data |-> <<>>, metadata |-> {}]

\* (variant: the tensors serialized without metadata=self._metadata)
StateDict_to_safetensors_bare(s) ==
    IF \E i \in DOMAIN s.items : s.items[i].v \notin Tensors
    THEN [exc |-> "ValueError: expected torch.Tensor", bytes |-> NoBytes]
    ELSE [exc |-> NoExc, bytes |-> Serialize(s.items, <<>>)]

\* state_dict.py:141-142  _to_safetensors: [exc, bytes]
StateDict_to_safetensors(s) ==
    IF "_metadata" \notin s.has
    THEN [exc |-> "AttributeError", bytes |-> NoBytes]
    ELSE IF \E i \in DOMAIN s.items : s.items[i].v \notin Tensors
    THEN [exc |-> "ValueError: expected torch.Tensor", bytes |-> NoBytes]
    ELSE [exc |-> NoExc, bytes |-> Serialize(s.items, s.meta.items)]

\* io.py:6-37  to_file with a Path and bytes (the str branches do not
\* apply): write_bytes needs the parent directory; [exc, fs, ret]
to_file(fsys, path, data) ==
    IF PathParent(path) \notin ExistingDirs
    THEN [exc |-> "FileNotFoundError", fs |-> fsys, ret |-> <<>>]
    ELSE [exc |-> NoExc,
          fs |-> {f \in fsys : f.path # Absolute(path)} \cup
                 {[path |-> Absolute(path), data |-> data]},
          ret |-> Absolute(path)]

Failed(fsys, e) == [exc |-> e, fs |-> fsys, ret |-> <<>>]
SUFFIX_ERR == "ValueError: File must have '.st' extension"

\* (variant: the extension tested after the file has been written)
StateDict_save_check_last(s, file_path, fsys) ==
    LET falsy == file_path.kind = "None" \/ (file_path.kind = "str" /\ file_path.p = <<>>)
    IN  IF falsy /\ "_created_time" \notin s.has THEN Failed(fsys, "AttributeError")
        ELSE
        LET path == IF falsy THEN st_file(s.ctime)
                    ELSE IF file_path.kind = "str" THEN Path(file_path.p)
                    ELSE file_path.p
            b == StateDict_to_safetensors(s)
            w == IF b.exc # NoExc THEN Failed(fsys, b.exc)
                 ELSE to_file(fsys, path, b.bytes)
        IN  IF w.exc = NoExc /\ PathSuffix(path) # ext
            THEN [exc |-> SUFFIX_ERR, fs |-> w.fs, ret |-> <<>>]
            ELSE w

\* state_dict.py:103-134  save: [exc, fs, ret]
StateDict_save(s, file_path, fsys) ==
    LET falsy == file_path.kind = "None" \/ (file_path.kind = "str" /\ file_path.p = <<>>)
    IN  IF falsy /\ "_created_time" \notin s.has THEN Failed(fsys, "AttributeError")
        ELSE
        LET path == IF falsy THEN st_file(s.ctime)
                    ELSE IF file_path.kind = "str" THEN Path(file_path.p)
                    ELSE file_path.p
        IN  IF PathSuffix(path) # ext
            THEN Failed(fsys, SUFFIX_ERR)
            ELSE LET b == StateDict_to_safetensors(s)
                 IN  IF b.exc # NoExc THEN Failed(fsys, b.exc)
                     ELSE to_file(fsys, path, b.bytes)

\* loading a snapshot: the names, values and metadata the file holds
NotLoaded == [ok |-> FALSE, path |-> <<>>, items |-> <<>>, metadata |-> {}]
Load(fsys, apath) ==
    IF \E f \in fsys : f.path = apath
    THEN LET b == (CHOOSE f \in fsys : f.path = apath).data
         IN  [ ok |-> TRUE, path |-> apath,
               items |-> [i \in DOMAIN b.header |->
                            [k |-> b.header[i].name, v |-> b.data[b.header[i].off]]],
               metadata |-> b.metadata ]
    ELSE NotLoaded

----------------------------------------------------------------------------
(* The graph of Parametrized modules                                        *)
(* graph maps a module object (an id) to [name, base, cls, pymod, params,   *)
(* childs]: params the ordered mapping parameter name -> Parameter          *)
(* (_params), childs the child objects in registration order (the values of *)
(* _childs).  NoGraph stands for "no module constructed".                   *)

Ids == <<"sim", "cosmo", "lensA", "lensB">>
IdSet == {Ids[i] : i \in DOMAIN Ids}
Range(q) == {q[i] : i \in DOMAIN q}

RECURSIVE Reverse(_)
Reverse(q) == IF q = <<>> THEN <<>> ELSE Append(Reverse(Tail(q)), Head(q))

\* the first occurrences of the elements of a sequence, in order
RECURSIVE Dedup(_, _)
Dedup(q, seen) ==
    IF q = <<>> THEN <<>>
    ELSE IF Head(q) \in seen THEN Dedup(Tail(q), seen)
    ELSE <<Head(q)>> \o Dedup(Tail(q), seen \cup {Head(q)})

NoGraph == [i \in IdSet |-> None]

\* the modules as their constructors leave them, no child attached yet:
\* Sim with add_param("z_s", 1.0), a FlatLambdaCDM (h0, Om0) and two lenses
\* of one class and one declared name (einstein_radius)
Constructed(h, e1, e2) ==
    [i \in IdSet |->
        CASE i = "sim" ->
               [name |-> <<"sim">>, base |-> <<"sim">>,
                cls |-> "Sim", pymod |-> "conftest",
                params |-> << [k |-> <<"z_s">>, v |-> Parameter("t1")] >>,
                childs |-> <<>>]
          [] i = "cosmo" ->
               [name |-> <<"cosmo">>, base |-> <<"cosmo">>,
                cls |-> "FlatLambdaCDM",
                pymod |-> "caustics.cosmology.FlatLambdaCDM",
                params |-> << [k |-> <<"h0">>, v |-> Parameter(h)],
                              [k |-> <<"Om0">>, v |-> Parameter("t2")] >>,
                childs |-> <<>>]
          [] i = "lensA" ->
               [name |-> <<"lens">>, base |-> <<"lens">>,
                cls |-> "EPL", pymod |-> "caustics.lenses.epl",
                params |-> << [k |-> <<"einstein_radius">>, v |-> Parameter(e1)] >>,
                childs |-> <<>>]
          [] i = "lensB" ->
               [name |-> <<"lens">>, base |-> <<"lens">>,
                cls |-> "EPL", pymod |-> "caustics.lenses.epl",
                params |-> << [k |-> <<"einstein_radius">>, v |-> Parameter(e2)] >>,
                childs |-> <<>>] ]

\* Parametrized.__init__(name): a module with no parameter and no child
Parametrized_init(name, cls, pymod) ==
    [name |-> name, base |-> name, cls |-> cls, pymod |-> pymod,
     params |-> <<>>, childs |-> <<>>]

\* Parametrized.add_param(name, value): [exc, mod]; the parameter is
\* registered last, a name already present is refused
DUPLICATE_ERR == "DuplicateNameError"
add_param(mod, name, value) ==
    IF HasKey(mod.params, name) THEN [exc |-> DUPLICATE_ERR, mod |-> mod]
    ELSE [exc |-> NoExc,
          mod |-> [mod EXCEPT !.params = Append(@, [k |-> name, v |-> Parameter(value)])]]

\* Parameter.set_value(v) and Parameter.clear() on parameter k of a module
set_value(mod, k, v) == [mod EXCEPT !.params = Put(@, k, Parameter(v))]
clear_value(mod, k) == [mod EXCEPT !.params = Put(@, k, Parameter(None))]

\* (variant: an argument that is None is replaced by a default value)
FlatLambdaCDM_init_defaults(h0, critical_density_0, Om0, name) ==
    LET dflt(v) == IF v = None THEN "t1" ELSE v
        m0 == Parametrized_init(name, "FlatLambdaCDM", "caustics.cosmology.FlatLambdaCDM")
        m1 == add_param(m0, <<"h0">>, dflt(h0)).mod
        m2 == add_param(m1, <<"critical_density_0">>, dflt(critical_density_0)).mod
    IN  add_param(m2, <<"Om0">>, dflt(Om0)).mod

\* FlatLambdaCDM.py:60-92  __init__: the three parameters are registered in
\* this order with the values the caller gave
FlatLambdaCDM_init(h0, critical_density_0, Om0, name) ==
    LET m0 == Parametrized_init(name, "FlatLambdaCDM", "caustics.cosmology.FlatLambdaCDM")
        m1 == add_param(m0, <<"h0">>, h0).mod
        m2 == add_param(m1, <<"critical_density_0">>, critical_density_0).mod
    IN  add_param(m2, <<"Om0">>, Om0).mod

\* node.children / module._childs.values(): the childs in registration order
children(g, node) == g[node].childs

\* the modules reachable from a module, itself first, each once, parents
\* before their childs (the walk of the Parametrized.params accessor)
RECURSIVE Visit(_, _, _)
Visit(g, todo, seen) ==
    IF todo = <<>> THEN seen
    ELSE IF Head(todo) \in Range(seen) THEN Visit(g, Tail(todo), seen)
    ELSE Visit(g, children(g, Head(todo)) \o Tail(todo), Append(seen, Head(todo)))

ReachSeq(g, root) == Visit(g, <<root>>, <<>>)
Reach(g, root) == Range(ReachSeq(g, root))

\* the [name, params] modules of the graph under root, as params() reads them
ModuleSeq(g, root) ==
    LET ids == ReachSeq(g, root)
    IN  [i \in DOMAIN ids |-> [name |-> g[ids[i]].name, params |-> g[ids[i]].params]]

----------------------------------------------------------------------------
(* Attaching and detaching childs (Parametrized, modelled from the          *)
(* specification: names are unique over a connected graph, a colliding name *)
(* is replaced by base_1, base_2, ... when a child is attached)             *)

Linked(g, a, b) == b \in Range(g[a].childs) \/ a \in Range(g[b].childs)

\* the modules connected to a module through child references
RECURSIVE Grow(_, _)
Grow(g, S) ==
    LET T == S \cup {b \in IdSet : \E a \in S : Linked(g, a, b)}
    IN  IF T = S THEN S ELSE Grow(g, T)

Component(g, id) == Grow(g, {id})
Names(g, S) == {g[i].name : i \in S}

\* (variant: the suffix is taken from a running count of the operations)
generate_unique_name_counter(base, names, k) ==
    base \o <<"_", ToString(nops + 1)>>

\* the first of base_1, base_2, ... that is not taken
RECURSIVE generate_unique_name(_, _, _)
generate_unique_name(base, names, k) ==
    IF base \o <<"_", ToString(k)>> \notin names
    THEN base \o <<"_", ToString(k)>>
    ELSE generate_unique_name(base, names, k + 1)

\* the collision check: each module that joins the graph keeps its name if
\* it is free and is renamed otherwise
RECURSIVE Validate(_, _, _)
Validate(g, pending, names) ==
    IF pending = <<>> THEN g
    ELSE LET m == Head(pending)
             nm == IF g[m].name \in names
                   THEN generate_unique_name(g[m].base, names, 1)
                   ELSE g[m].name
         IN  Validate([g EXCEPT ![m].name = nm], Tail(pending), names \cup {nm})

\* a child may be attached where that closes no cycle and it is not a child
\* of that parent already
CanAttach(g, p, c) ==
    /\ c # p
    /\ p \notin Reach(g, c)
    /\ c \notin Range(g[p].childs)

\* parent.child = module: the modules that join the parent's graph are
\* checked, the child first, and the child is registered last in _childs
add_parametrized(g, p, c) ==
    LET comp == Component(g, p)
        joining == Component(g, c) \ comp
        pending == SelectSeq(<<c>> \o SelectSeq(Ids, LAMBDA i : i # c),
                             LAMBDA i : i \in joining)
        g1 == Validate(g, pending, Names(g, comp))
    IN  [g1 EXCEPT ![p].childs = Append(@, c)]

\* detaching a child: the reference is removed, every name stays
remove_parametrized(g, p, c) ==
    [g EXCEPT ![p].childs = SelectSeq(@, LAMBDA i : i # c)]

----------------------------------------------------------------------------
(* simulator.py: _get_traversal_order, _module_classes, state_dict          *)

\* (variant: each dequeued name appended at the back of the output)
RECURSIVE traversal_loop_append(_, _, _)
traversal_loop_append(g, q, tq) ==
    IF q = <<>> THEN tq
    ELSE LET node == Head(q)
         IN  IF node = None THEN traversal_loop_append(g, Tail(q), tq)
             ELSE traversal_loop_append(g, Tail(q) \o children(g, node),
                                        Append(tq, g[node].name))

\* simulator.py:104-113  the while loop: q the work queue, tq the output
RECURSIVE traversal_loop(_, _, _)
traversal_loop(g, q, tq) ==
    IF q = <<>> THEN tq
    ELSE LET node == Head(q)
         IN  IF node = None THEN traversal_loop(g, Tail(q), tq)
             ELSE traversal_loop(g, Tail(q) \o children(g, node),
                                 <<g[node].name>> \o tq)

\* (variant: the node is read from the front of q and left there)
traversal_step_peek(g, q, tq) ==
    LET node == Head(q)
    IN  IF node = None THEN [q |-> q, tq |-> tq]
        ELSE [q |-> q \o children(g, node), tq |-> <<g[node].name>> \o tq]

\* simulator.py:105-113  one iteration of the while loop, q not empty:
\* [q, tq] afterwards
traversal_step(g, q, tq) ==
    LET node == Head(q)
    IN  IF node = None THEN [q |-> Tail(q), tq |-> tq]
        ELSE [q |-> Tail(q) \o children(g, node), tq |-> <<g[node].name>> \o tq]

\* (variant: a module already seen is not visited again)
get_traversal_order_visited(g, module) ==
    Reverse(Dedup(Reverse(traversal_loop(g, <<module>>, <<>>)), {}))

\* simulator.py:88-115
get_traversal_order(g, module) == traversal_loop(g, <<module>>, <<>>)

\* (variant: only the root is recorded, its childs are not visited)
RECURSIVE get_childs_root_only(_, _, _)
get_childs_root_only(g, modules, todo) ==
    IF todo = <<>> THEN modules
    ELSE Put(modules, g[Head(todo)].name,
             [module |-> g[Head(todo)].pymod, class |-> g[Head(todo)].cls])

\* simulator.py:73-81  _get_childs: the module, then each child in turn (todo
\* is the pending part of the recursion)
RECURSIVE get_childs(_, _, _)
get_childs(g, modules, todo) ==
    IF todo = <<>> THEN modules
    ELSE LET module == Head(todo)
         IN  get_childs(g,
                        Put(modules, g[module].name,
                            [module |-> g[module].pymod, class |-> g[module].cls]),
                        children(g, module) \o Tail(todo))

\* simulator.py:66-85
module_classes(g, self) == get_childs(g, <<>>, <<self>>)

\* Parametrized._key_maps: no module of the model remaps a name
key_maps(g, self) == <<>>

\* json.dumps / json.loads of str keys and names in dicts and lists, which
\* JSON text represents exactly: the text stands for the value it encodes
json_dumps(v) == [json |-> v]
json_loads(s) == s.json

\* what state_dict() builds from the tensors and the metadata: the
\* MappingProxyType of lines 55-63
MappingProxy(tensors, metadata) ==
    [ type |-> "mappingproxy",
      d |-> << [k |-> <<"params">>, v |-> tensors],
               [k |-> <<"_metadata">>,
                v |-> << [k |-> <<"state_metadata">>, v |-> json_dumps(metadata)],
                         [k |-> <<"software_version">>, v |-> VERSION] >>] >> ]

\* (variant: the dynamic parameters are recorded too)
Simulator_state_dict_all(g, self) ==
    LET p == params(ModuleSeq(g, self)).d
        all_params == flatten(Get(p, STATIC_PARAMS)) \o flatten(Get(p, <<"dynamic">>))
        tensors == [i \in DOMAIN all_params |->
                       [k |-> all_params[i].k, v |-> all_params[i].v.value]]
        metadata == << [k |-> <<"key_maps">>, v |-> key_maps(g, self)],
                       [k |-> <<"class_maps">>, v |-> module_classes(g, self)],
                       [k |-> <<"module_order">>, v |-> get_traversal_order(g, self)] >>
    IN  [ret |-> MappingProxy(tensors, metadata), graph |-> g]

\* (variant: the traversal takes each visited module's childs off the module)
Simulator_state_dict_consuming(g, self) ==
    LET static_params == flatten(Get(params(ModuleSeq(g, self)).d, STATIC_PARAMS))
        tensors == [i \in DOMAIN static_params |->
                       [k |-> static_params[i].k, v |-> static_params[i].v.value]]
        metadata == << [k |-> <<"key_maps">>, v |-> key_maps(g, self)],
                       [k |-> <<"class_maps">>, v |-> module_classes(g, self)],
                       [k |-> <<"module_order">>, v |-> get_traversal_order(g, self)] >>
    IN  [ret |-> MappingProxy(tensors, metadata),
         graph |-> [i \in IdSet |->
                       IF i \in Reach(g, self) THEN [g[i] EXCEPT !.childs = <<>>]
                       ELSE g[i]]]

\* simulator.py:39-64  state_dict: [ret, graph], the object returned and the
\* graph afterwards
Simulator_state_dict(g, self) ==
    LET static_params == flatten(Get(params(ModuleSeq(g, self)).d, STATIC_PARAMS))
        tensors == [i \in DOMAIN static_params |->
                       [k |-> static_params[i].k, v |-> static_params[i].v.value]]
        metadata == << [k |-> <<"key_maps">>, v |-> key_maps(g, self)],
                       [k |-> <<"class_maps">>, v |-> module_classes(g, self)],
                       [k |-> <<"module_order">>, v |-> get_traversal_order(g, self)] >>
    IN  [ret |-> MappingProxy(tensors, metadata), graph |-> g]

\* the operations of the test on the returned object
\* isinstance(o, StateDict)
IsStateDict(o) == o.type = "StateDict"
\* o[k] = v on a mappingproxy: it has no __setitem__
mappingproxy_setitem(o, k, v) ==
    Raise(o, "TypeError: 'mappingproxy' object does not support item assignment")
\* del o[k] on a mappingproxy: it has no __delitem__
mappingproxy_delitem(o, k) ==
    Raise(o, "TypeError: 'mappingproxy' object does not support item deletion")
\* o[k] on a mappingproxy: the object stored under k in the wrapped dict
\* itself, here the plain dict of lines 57 and 58-61
mappingproxy_getitem(o, k) == Get(o.d, k)
\* d[k] = v and del d[k] on a plain dict d that is the value of o[name]:
\* [o, exc], o the returned object afterwards
dict_setitem(o, name, k, v) ==
    Ok([o EXCEPT !.d = Put(@, name, Put(mappingproxy_getitem(o, name), k, v))])
dict_delitem(o, name, k) ==
    IF HasKey(mappingproxy_getitem(o, name), k)
    THEN Ok([o EXCEPT !.d = Put(@, name, Remove(mappingproxy_getitem(o, name), k))])
    ELSE Raise(o, "KeyError")
\* o._metadata: a mappingproxy has keys, not attributes
mappingproxy_getattr(o, name) == [exc |-> "AttributeError", value |-> None]
\* dict(o)
AsDict(o) == o.d

----------------------------------------------------------------------------
(* Simulator.__call__: pack, then forward                                   *)
(* pack, unpack and the Packed container belong to Parametrized and are     *)
(* modelled from the specification; forward is the user's computation, in   *)
(* which every module unpacks its own values                                *)

\* the dependency traversal order pack walks: breadth-first from the root,
\* each dequeued module put at the front
RECURSIVE LevelChilds(_, _)
LevelChilds(g, level) ==
    IF level = <<>> THEN <<>>
    ELSE g[Head(level)].childs \o LevelChilds(g, Tail(level))

RECURSIVE PackWalk(_, _, _)
PackWalk(g, level, acc) ==
    IF level = <<>> THEN acc
    ELSE PackWalk(g, LevelChilds(g, level), Reverse(level) \o acc)

PackOrder(g, self) == PackWalk(g, <<self>>, <<>>)

\* the ordered list of the dynamic parameters under a module: [m, k] for
\* parameter k of module m, each module once, in pack order
RECURSIVE DynamicOf(_, _)
DynamicOf(g, mods) ==
    IF mods = <<>> THEN <<>>
    ELSE LET m == Head(mods)
             dyn == OwnParams(g[m], FALSE)
         IN  [i \in DOMAIN dyn |-> [m |-> m, k |-> dyn[i].k]] \o DynamicOf(g, Tail(mods))

DynamicList(g, self) == DynamicOf(g, Dedup(PackOrder(g, self), {}))

\* the arguments of a call: x is args[0], [kind, v] with kind "none" (no
\* positional argument), "list" (values in order, each [k |-> <<>>, v]) or
\* "dict" (parameter name -> value); kwargs the keyword arguments
NoArg == [kind |-> "none", v |-> <<>>]
MISSING_ERR == "MissingParameterError"
EXCESS_ERR == "ExcessValuesError"
NoPacked == [order |-> <<>>, values |-> <<>>]

\* Packed: the module names in pack order and, per dynamic parameter in
\* order, the value resolved for it
Packed(g, self, vals) ==
    LET dyn == DynamicList(g, self)
        order == PackOrder(g, self)
    IN  [ order |-> [i \in DOMAIN order |-> g[order[i]].name],
          values |-> [i \in DOMAIN dyn |->
                        [m |-> g[dyn[i].m].name, k |-> dyn[i].k, v |-> vals[i]]] ]

\* Parametrized.pack: [exc, packed]
pack(g, self, x) ==
    LET dyn == DynamicList(g, self)
        missing == {i \in DOMAIN dyn : ~HasKey(x.v, dyn[i].k)}
        known == {dyn[i].k : i \in DOMAIN dyn}
    IN  CASE x.kind = "none" ->
               IF dyn # <<>> THEN [exc |-> MISSING_ERR, packed |-> NoPacked]
               ELSE [exc |-> NoExc, packed |-> Packed(g, self, <<>>)]
          [] x.kind = "list" ->
               IF Len(x.v) < Len(dyn) THEN [exc |-> MISSING_ERR, packed |-> NoPacked]
               ELSE IF Len(x.v) > Len(dyn) THEN [exc |-> EXCESS_ERR, packed |-> NoPacked]
               ELSE [exc |-> NoExc,
                     packed |-> Packed(g, self, [i \in DOMAIN x.v |-> x.v[i].v])]
          [] x.kind = "dict" ->
               IF missing # {} THEN [exc |-> MISSING_ERR, packed |-> NoPacked]
               ELSE IF KeysOf(x.v) \ known # {} THEN [exc |-> EXCESS_ERR, packed |-> NoPacked]
               ELSE [exc |-> NoExc,
                     packed |-> Packed(g, self, [i \in DOMAIN dyn |-> Get(x.v, dyn[i].k)])]

\* unpack in module m: its static values as they are, its dynamic values
\* from the slice of the container kept for m
unpack(g, m, packed) ==
    [i \in DOMAIN g[m].params |->
        LET e == g[m].params[i]
        IN  [k |-> e.k,
             v |-> IF static(e.v) THEN e.v.value
                   ELSE LET hit == {j \in DOMAIN packed.values :
                                      /\ packed.values[j].m = g[m].name
                                      /\ packed.values[j].k = e.k}
                        IN  IF hit = {} THEN None
                            ELSE packed.values[CHOOSE j \in hit : TRUE].v]]

\* forward(packed, *rest, **kwargs): the values each module of the graph
\* computes with, module name -> parameter name -> value
forward(g, self, packed, rest, kwargs) ==
    LET mods == ReachSeq(g, self)
    IN  [i \in DOMAIN mods |-> [k |-> g[mods[i]].name, v |-> unpack(g, mods[i], packed)]]

\* (variant: forward is run whatever pack did)
Simulator_call_unchecked(g, self, args, kwargs) ==
    LET x == IF Len(args) > 0 THEN args[1] ELSE NoArg
        rest_args == IF Len(args) > 0 THEN Tail(args) ELSE <<>>
        p == pack(g, self, x)
    IN  [ events |-> << [ev |-> "pack", x |-> x],
                        [ev |-> IF p.exc # NoExc THEN "pack raised" ELSE "pack returned"],
                        [ev |-> "forward", packed |-> p.packed,
                         rest |-> rest_args, kwargs |-> kwargs] >>,
          exc |-> NoExc,
          ret |-> forward(g, self, p.packed, rest_args, kwargs),
          graph |-> g ]

\* (variant: when pack raises, forward is run with an empty container)
Simulator_call_default(g, self, args, kwargs) ==
    LET x == IF Len(args) > 0 THEN args[1] ELSE NoArg
        rest_args == IF Len(args) > 0 THEN Tail(args) ELSE <<>>
        p == pack(g, self, x)
    IN  IF p.exc # NoExc
        THEN [ events |-> << [ev |-> "pack", x |-> x], [ev |-> "pack raised"],
                             [ev |-> "pack", x |-> [kind |-> "list", v |-> <<>>]],
                             [ev |-> "pack returned"],
                             [ev |-> "forward", packed |-> NoPacked,
                              rest |-> rest_args, kwargs |-> kwargs] >>,
               exc |-> NoExc,
               ret |-> forward(g, self, NoPacked, rest_args, kwargs),
               graph |-> g ]
        ELSE [ events |-> << [ev |-> "pack", x |-> x], [ev |-> "pack returned"],
                             [ev |-> "forward", packed |-> p.packed,
                              rest |-> rest_args, kwargs |-> kwargs] >>,
               exc |-> NoExc,
               ret |-> forward(g, self, p.packed, rest_args, kwargs),
               graph |-> g ]

\* (variant: pack is called without the caller's values)
Simulator_call_noargs(g, self, args, kwargs) ==
    LET x == IF Len(args) > 0 THEN args[1] ELSE NoArg
        rest_args == IF Len(args) > 0 THEN Tail(args) ELSE <<>>
        p == pack(g, self, NoArg)
    IN  IF p.exc # NoExc
        THEN [ events |-> << [ev |-> "pack", x |-> x], [ev |-> "pack raised"] >>,
               exc |-> p.exc,
               ret |-> <<>>,
               graph |-> g ]
        ELSE [ events |-> << [ev |-> "pack", x |-> x], [ev |-> "pack returned"],
                             [ev |-> "forward", packed |-> p.packed,
                              rest |-> rest_args, kwargs |-> kwargs] >>,
               exc |-> NoExc,
               ret |-> forward(g, self, p.packed, rest_args, kwargs),
               graph |-> g ]

\* (variant: the values pack resolved are stored in the parameters)
Simulator_call_binding(g, self, args, kwargs) ==
    LET x == IF Len(args) > 0 THEN args[1] ELSE NoArg
        rest_args == IF Len(args) > 0 THEN Tail(args) ELSE <<>>
        p == pack(g, self, x)
    IN  IF p.exc # NoExc
        THEN [ events |-> << [ev |-> "pack", x |-> x], [ev |-> "pack raised"] >>,
               exc |-> p.exc,
               ret |-> <<>>,
               graph |-> g ]
        ELSE [ events |-> << [ev |-> "pack", x |-> x], [ev |-> "pack returned"],
                             [ev |-> "forward", packed |-> p.packed,
                              rest |-> rest_args, kwargs |-> kwargs] >>,
               exc |-> NoExc,
               ret |-> forward(g, self, p.packed, rest_args, kwargs),
               graph |-> [i \in IdSet |->
                            IF i \in Reach(g, self)
                            THEN [g[i] EXCEPT !.params =
                                     [j \in DOMAIN g[i].params |->
                                        [k |-> g[i].params[j].k,
                                         v |-> Parameter(unpack(g, i, p.packed)[j].v)]]]
                            ELSE g[i]] ]

\* simulator.py:29-37  __call__: [events, exc, ret, graph]; events are the
\* calls made, in order, and how pack ended; graph is the graph afterwards
Simulator_call(g, self, args, kwargs) ==
    LET x == IF Len(args) > 0 THEN args[1] ELSE NoArg
        rest_args == IF Len(args) > 0 THEN Tail(args) ELSE <<>>
        p == pack(g, self, x)
    IN  IF p.exc # NoExc
        THEN [ events |-> << [ev |-> "pack", x |-> x], [ev |-> "pack raised"] >>,
               exc |-> p.exc,
               ret |-> <<>>,
               graph |-> g ]
        ELSE [ events |-> << [ev |-> "pack", x |-> x], [ev |-> "pack returned"],
                             [ev |-> "forward", packed |-> p.packed,
                              rest |-> rest_args, kwargs |-> kwargs] >>,
               exc |-> NoExc,
               ret |-> forward(g, self, p.packed, rest_args, kwargs),
               graph |-> g ]

\* the calls a caller makes: Sim(), Sim(einstein_radius=v), Sim(x) with x a
\* list or a dict of values
ER == <<"einstein_radius">>
CallInputs ==
    { [args |-> <<>>, kwargs |-> <<>>],
      [args |-> <<>>, kwargs |-> <<[k |-> ER, v |-> "t1"]>>],
      [args |-> <<[kind |-> "list", v |-> <<>>]>>, kwargs |-> <<>>],
      [args |-> <<[kind |-> "list", v |-> <<[k |-> <<>>, v |-> "t1"]>>]>>,
       kwargs |-> <<>>],
      [args |-> <<[kind |-> "list",
                   v |-> <<[k |-> <<>>, v |-> "t1"], [k |-> <<>>, v |-> "t2"]>>]>>,
       kwargs |-> <<>>],
      [args |-> <<[kind |-> "dict", v |-> <<[k |-> ER, v |-> "t1"]>>]>>,
       kwargs |-> <<>>],
      [args |-> <<[kind |-> "dict", v |-> <<[k |-> <<"h0">>, v |-> "t2"]>>]>>,
       kwargs |-> <<>>] }

\* no object returned yet
NoResult == [type |-> "none", d |-> <<>>]
NoSnap == [cur |-> NoResult, prev |-> NoResult, same |-> FALSE, dirty |-> FALSE]
NoCall == [events |-> <<>>, exc |-> NoExc, ret |-> <<>>,
           args |-> [args |-> <<>>, kwargs |-> <<>>]]
\* no traversal and no evaluation in progress
NoTrav == [pc |-> "idle", root |-> None, q |-> <<>>, tq |-> <<>>]
NoEvals == <<>>

----------------------------------------------------------------------------
(* The cosmology's methods and the module-level functions over _func        *)
(* (cosmology/base.py, cosmology/FlatLambdaCDM.py).  The @unpack decorator  *)
(* belongs to Parametrized and is modelled from the specification.          *)

\* FlatLambdaCDM.py:33  the default tensor of h0
h0_default == "t1"

\* the container a method is given: by is who packed it ("none": no
\* container), c the Packed
NoContainer == [by |-> "none", c |-> NoPacked]

\* h0, critical_density_0 and Om0 as keyword arguments
Keywords(h0, critical_density_0, Om0) ==
    << [k |-> <<"h0">>, v |-> h0],
       [k |-> <<"critical_density_0">>, v |-> critical_density_0],
       [k |-> <<"Om0">>, v |-> Om0] >>

\* (variant: the supplied values are stored in _func, which is then called
\* without them)
FlatLambdaCDM_function_storing(g, fn, h0, critical_density_0, Om0) ==
    LET kw == Keywords(IF fn = "critical_density" THEN h0_default ELSE h0,
                       critical_density_0, Om0)
    IN  [ graph |-> [g EXCEPT !["cosmo"].params =
                        [i \in DOMAIN kw |-> [k |-> kw[i].k, v |-> Parameter(kw[i].v)]]],
          method |-> fn,
          kwargs |-> <<>> ]

\* FlatLambdaCDM.py:207-481  the module-level function fn: it calls the
\* method of the same name on _func with the values as keyword arguments
\* (critical_density takes no h0 and passes h0_default): [graph, method,
\* kwargs], the graph afterwards and the call made
FlatLambdaCDM_function(g, fn, h0, critical_density_0, Om0) ==
    [ graph |-> g,
      method |-> fn,
      kwargs |-> Keywords(IF fn = "critical_density" THEN h0_default ELSE h0,
                          critical_density_0, Om0) ]

Functions ==
    { "comoving_distance", "critical_density", "transverse_comoving_distance",
      "comoving_distance_z1z2", "transverse_comoving_distance_z1z2",
      "angular_diameter_distance", "angular_diameter_distance_z1z2",
      "time_delay_distance", "critical_surface_density" }

\* the methods whose signature names h0, critical_density_0 and Om0: the
\* values the decorator resolved are bound to these names and are not in
\* the method's **kwargs
DeclaresValues(method) ==
    method \in {"critical_density", "comoving_distance", "transverse_comoving_distance"}

\* (variant: comoving_distance_z1z2 calls comoving_distance without params)
Callees_dropping(method) ==
    LET c(callee, kw) == [callee |-> callee, params |-> TRUE, kwargs |-> kw]
    IN  CASE method = "comoving_distance_z1z2" ->
               << [callee |-> "comoving_distance", params |-> FALSE, kwargs |-> FALSE],
                  [callee |-> "comoving_distance", params |-> FALSE, kwargs |-> FALSE] >>
          [] method = "transverse_comoving_distance_z1z2" ->
               << c("transverse_comoving_distance", FALSE),
                  c("transverse_comoving_distance", FALSE) >>
          [] method = "angular_diameter_distance" ->
               << c("comoving_distance", TRUE) >>
          [] method = "angular_diameter_distance_z1z2" ->
               << c("comoving_distance_z1z2", TRUE) >>
          [] method \in {"time_delay_distance", "critical_surface_density"} ->
               << c("angular_diameter_distance", FALSE),
                  c("angular_diameter_distance", FALSE),
                  c("angular_diameter_distance_z1z2", FALSE) >>
          [] method = "comoving_distance" ->
               << c("_comoving_distance_helper", FALSE),
                  c("_comoving_distance_helper", FALSE) >>
          [] method = "transverse_comoving_distance" ->
               << c("comoving_distance", TRUE) >>
          [] OTHER -> <<>>

\* the parametrized calls a method's body makes, in order: callee, whether
\* the params it received are passed on and whether its **kwargs are
\*   base.py:13-16,172-193     comoving_distance_z1z2
\*   base.py:19-24,195-218     transverse_comoving_distance_z1z2
\*   base.py:27-30,220-241     angular_diameter_distance
\*   base.py:33-36,243-266     angular_diameter_distance_z1z2
\*   base.py:39-75,268-334     time_delay_distance, critical_surface_density
\*   FlatLambdaCDM.py:157-188  comoving_distance (params passed positionally)
\*   FlatLambdaCDM.py:190-201  transverse_comoving_distance
\*   FlatLambdaCDM.py:105-155  critical_density, _comoving_distance_helper
Callees(method) ==
    LET c(callee, kw) == [callee |-> callee, params |-> TRUE, kwargs |-> kw]
    IN  CASE method = "comoving_distance_z1z2" ->
               << c("comoving_distance", FALSE), c("comoving_distance", FALSE) >>
          [] method = "transverse_comoving_distance_z1z2" ->
               << c("transverse_comoving_distance", FALSE),
                  c("transverse_comoving_distance", FALSE) >>
          [] method = "angular_diameter_distance" ->
               << c("comoving_distance", TRUE) >>
          [] method = "angular_diameter_distance_z1z2" ->
               << c("comoving_distance_z1z2", TRUE) >>
          [] method \in {"time_delay_distance", "critical_surface_density"} ->
               << c("angular_diameter_distance", FALSE),
                  c("angular_diameter_distance", FALSE),
                  c("angular_diameter_distance_z1z2", FALSE) >>
          [] method = "comoving_distance" ->
               << c("_comoving_distance_helper", FALSE),
                  c("_comoving_distance_helper", FALSE) >>
          [] method = "transverse_comoving_distance" ->
               << c("comoving_distance", TRUE) >>
          [] OTHER -> <<>>

\* the @unpack decorator around a method of module m: a Packed container it
\* is given (by keyword or as the last positional argument) is kept as it
\* is; without one the keyword values are packed; the module's own values
\* are then read, static ones from the module and dynamic ones from the
\* container: [exc, packed, values]
unpack_wrapper(g, m, method, given, kwargs) ==
    IF given.by # "none"
    THEN [exc |-> NoExc, packed |-> given, values |-> unpack(g, m, given.c)]
    ELSE LET p == pack(g, m, [kind |-> "dict", v |-> kwargs])
         IN  IF p.exc # NoExc
             THEN [exc |-> p.exc, packed |-> NoContainer, values |-> <<>>]
             ELSE [exc |-> NoExc,
                   packed |-> [by |-> method, c |-> p.packed],
                   values |-> unpack(g, m, p.packed)]

\* a call of a method of module m and the calls nested in it: the frames
\* [method, params, values, exc] in call order, params the container the
\* method's body received and values the module's values it computed with
RECURSIVE Run(_, _, _, _, _)
RECURSIVE RunAll(_, _, _, _, _)
Run(g, m, method, given, kwargs) ==
    LET w == unpack_wrapper(g, m, method, given, kwargs)
        body_kwargs == IF DeclaresValues(method) THEN <<>> ELSE w.values
    IN  << [method |-> method, params |-> w.packed, values |-> w.values,
            exc |-> w.exc] >>
        \o (IF w.exc # NoExc THEN <<>>
            ELSE RunAll(g, m, Callees(method), w.packed, body_kwargs))

RunAll(g, m, calls, received, body_kwargs) ==
    IF calls = <<>> THEN <<>>
    ELSE Run(g, m, Head(calls).callee,
             IF Head(calls).params THEN received ELSE NoContainer,
             IF Head(calls).kwargs THEN body_kwargs ELSE <<>>)
         \o RunAll(g, m, Tail(calls), received, body_kwargs)

\* the threads that evaluate, and an evaluation not started
Threads == {"A", "B"}
IdleEval ==
    [pc |-> "idle", fn |-> "none", method |-> "none", supplied |-> <<>>,
     given |-> NoContainer, kwargs |-> <<>>, packed |-> NoContainer,
     exc |-> NoExc, frames |-> <<>>]

\* the values a caller supplies for h0, critical_density_0 and Om0
SuppliedValues == { <<"t1", "t1", "t2">>, <<"t2", "t1", "t1">> }

----------------------------------------------------------------------------
(* The caller's inputs *)

InitKeys == {K1, K2}
ItemKeys == {K1, KZ}
\* the dicts a caller constructs a StateDict from (tensor values)
Mappings ==
    { m \in UNION { [1..n -> [k : InitKeys, v : Tensors]] : n \in 0..Cardinality(InitKeys) }
        : Distinct(m) }
\* the dicts a caller passes to update()
Updates == { <<>>, <<[k |-> KZ, v |-> "t1"]>> }
\* the values a caller binds to an attribute: a time, a metadata dict
AttrValues == { [t |-> 0, m |-> <<>>] }
\* the forms of a module graph's parameters that from_params is given
Forms == {"nested", "flat_static", "flat_all"}
ParamsOf(tree, form) ==
    CASE form = "nested" -> params(tree)
      [] form = "flat_static" -> FlatStatic(tree)
      [] form = "flat_all" -> FlatAll(tree)

Did(op, exc) == [op |-> op, exc |-> exc]

----------------------------------------------------------------------------
(* Initial state: a StateDict has just been constructed *)

Init ==
    /\ now = 0
    /\ \E m \in Mappings :
          /\ sd = StateDict_init(m, 0)
          /\ last = [op |-> "StateDict", exc |-> NoExc, arg |-> m, at |-> 0]
    /\ fs = {}
    /\ out = <<>>
    /\ loaded = NotLoaded
    /\ nops = 0
    /\ graph = NoGraph
    /\ snap = NoSnap
    /\ call = NoCall
    /\ trav = NoTrav
    /\ evals = NoEvals

Step == nops < MaxOps /\ nops' = nops + 1

\* the clock advances
Tick ==
    /\ now < MaxTime
    /\ now' = now + 1
    /\ UNCHANGED <<sd, fs, last, out, loaded, nops, simvars>>

\* sd = StateDict(m)
Construct ==
    /\ Step
    /\ \E m \in Mappings :
          /\ sd' = StateDict_init(m, now)
          /\ last' = [op |-> "StateDict", exc |-> NoExc, arg |-> m, at |-> now]
    /\ UNCHANGED <<now, fs, out, loaded, simvars>>

\* sd = StateDict.from_params(p)
FromParams ==
    /\ Step
    /\ \E tree \in Trees, form \in Forms :
          /\ sd' = StateDict_from_params(ParamsOf(tree, form), now)
          /\ last' = [op |-> "from_params", exc |-> NoExc,
                      tree |-> tree, form |-> form, at |-> now]
    /\ UNCHANGED <<now, fs, out, loaded, simvars>>

\* out = sd.to_params()
ToParams ==
    /\ Step
    /\ out' = StateDict_to_params(sd)
    /\ last' = Did("to_params", NoExc)
    /\ UNCHANGED <<now, sd, fs, loaded, simvars>>

\* an operation of the dict part of sd: r is its [o, exc] outcome
Apply(op, r) ==
    /\ sd' = WithODict(sd, r.o)
    /\ last' = Did(op, r.exc)
    /\ UNCHANGED <<now, fs, out, loaded, simvars>>

\* sd[k] = v
SetItem ==
    /\ Step
    /\ \E k \in ItemKeys, v \in Tensors :
          Apply("setitem", ImmutableODict_setitem(AsODict(sd), k, v))

\* del sd[k]
DelItem ==
    /\ Step
    /\ \E k \in ItemKeys :
          Apply("delitem", ImmutableODict_delitem(AsODict(sd), k))

\* sd.update(m)
Update ==
    /\ Step
    /\ \E m \in Updates :
          Apply("update", OrderedDict_update(AsODict(sd), m))

\* sd.setdefault(k, d)
SetDefault ==
    /\ Step
    /\ \E k \in ItemKeys :
          Apply("setdefault", OrderedDict_setdefault(AsODict(sd), k, "t2"))

\* sd.pop(k)
Pop ==
    /\ Step
    /\ \E k \in ItemKeys :
          Apply("pop", OrderedDict_pop(AsODict(sd), k))

\* sd.popitem(last=flag)
PopItem ==
    /\ Step
    /\ \E flag \in BOOLEAN :
          Apply("popitem", OrderedDict_popitem(AsODict(sd), flag))

\* sd.clear()
Clear ==
    /\ Step
    /\ Apply("clear", OrderedDict_clear(AsODict(sd)))

\* sd.move_to_end(k, last=flag)
MoveToEnd ==
    /\ Step
    /\ \E k \in ItemKeys, flag \in BOOLEAN :
          Apply("move_to_end", OrderedDict_move_to_end(AsODict(sd), k, flag))

\* sd.<name> = value
SetAttr ==
    /\ Step
    /\ \E name \in Slots, value \in AttrValues :
          LET r == ImmutableODict_setattr(sd, name, value)
          IN  sd' = r.o /\ last' = [op |-> "setattr", exc |-> r.exc, name |-> name]
    /\ UNCHANGED <<now, fs, out, loaded, simvars>>

\* del sd.<name>
DelAttr ==
    /\ Step
    /\ \E name \in Slots :
          LET r == StateDict_delattr(sd, name)
          IN  sd' = r.o /\ last' = Did("delattr", r.exc)
    /\ UNCHANGED <<now, fs, out, loaded, simvars>>

\* an operation of sd._metadata: reading the attribute comes first
ApplyMeta(op, r) ==
    /\ IF "_metadata" \in sd.has
       THEN sd' = [sd EXCEPT !.meta = r.o] /\ last' = Did(op, r.exc)
       ELSE sd' = sd /\ last' = Did(op, "AttributeError")
    /\ UNCHANGED <<now, fs, out, loaded, simvars>>

MetaKeys == {<<"software_version">>, KZ}

\* sd._metadata[k] = v
MetaSetItem ==
    /\ Step
    /\ \E k \in MetaKeys :
          ApplyMeta("meta.setitem", ImmutableODict_setitem(sd.meta, k, <<"x">>))

\* del sd._metadata[k]
MetaDelItem ==
    /\ Step
    /\ \E k \in MetaKeys :
          ApplyMeta("meta.delitem", ImmutableODict_delitem(sd.meta, k))

\* sd._metadata.pop(k)
MetaPop ==
    /\ Step
    /\ \E k \in MetaKeys :
          ApplyMeta("meta.pop", OrderedDict_pop(sd.meta, k))

\* sd._metadata.clear()
MetaClear ==
    /\ Step
    /\ ApplyMeta("meta.clear", OrderedDict_clear(sd.meta))

\* sd.save(file_path)
Save ==
    /\ Step
    /\ \E fp \in FilePaths :
          LET r == StateDict_save(sd, fp, fs)
          IN  /\ fs' = r.fs
              /\ last' = [op |-> "save", exc |-> r.exc, fp |-> fp, ret |-> r.ret]
    /\ UNCHANGED <<now, sd, out, loaded, simvars>>

\* load a file that was written
LoadFile ==
    /\ Step
    /\ \E f \in fs :
          /\ loaded' = Load(fs, f.path)
          /\ last' = [op |-> "load", exc |-> NoExc, ret |-> f.path]
    /\ UNCHANGED <<now, sd, fs, out, simvars>>

\* The StateDict under the operations a caller can apply to it
Next ==
    \/ Construct
    \/ SetItem
    \/ DelItem
    \/ Update
    \/ SetDefault
    \/ Pop
    \/ PopItem
    \/ Clear
    \/ MoveToEnd
    \/ SetAttr
    \/ DelAttr
    \/ MetaSetItem
    \/ MetaDelItem
    \/ MetaPop
    \/ MetaClear

Spec == Init /\ [][Next]_vars

\* Construction from dicts and from parameter collections, and to_params
NextParams ==
    \/ Tick
    \/ Construct
    \/ FromParams
    \/ ToParams

SpecParams == Init /\ [][NextParams]_vars

\* Saving and loading: the StateDict was made by from_params or by the
\* constructor
InitIO ==
    /\ now = 0
    /\ \E tree \in Trees, form \in Forms :
          /\ sd = StateDict_from_params(ParamsOf(tree, form), 0)
          /\ last = [op |-> "from_params", exc |-> NoExc,
                     tree |-> tree, form |-> form, at |-> 0]
    /\ fs = {}
    /\ out = <<>>
    /\ loaded = NotLoaded
    /\ nops = 0
    /\ graph = NoGraph
    /\ snap = NoSnap
    /\ call = NoCall
    /\ trav = NoTrav
    /\ evals = NoEvals

NextIO ==
    \/ Tick
    \/ Construct
    \/ Save
    \/ LoadFile

SpecIO == InitIO /\ [][NextIO]_vars

----------------------------------------------------------------------------
(* The simulator: a Sim, a cosmology and two lenses have been constructed;  *)
(* the caller attaches and detaches childs and takes snapshots              *)

InitSim ==
    /\ now = 0
    /\ sd = StateDict_init(<<>>, 0)
    /\ fs = {}
    /\ out = <<>>
    /\ loaded = NotLoaded
    /\ nops = 0
    /\ \E h \in {"t1", None}, e1 \in {"t2", None} :
          graph = Constructed(h, e1, None)
    /\ snap = NoSnap
    /\ call = NoCall
    /\ trav = NoTrav
    /\ evals = NoEvals
    /\ last = Did("Sim", NoExc)

\* parent.attr = child (the simulator is the root: it is nobody's child)
Attach ==
    /\ Step
    /\ \E p \in IdSet, c \in IdSet \ {"sim"} :
          /\ CanAttach(graph, p, c)
          /\ graph' = add_parametrized(graph, p, c)
          /\ last' = [op |-> "attach", exc |-> NoExc, p |-> p, c |-> c]
    /\ snap' = [snap EXCEPT !.dirty = TRUE]
    /\ UNCHANGED <<now, sd, fs, out, loaded, call, trav, evals>>

\* a child is detached from a parent
Detach ==
    /\ Step
    /\ \E p \in IdSet, c \in IdSet :
          /\ c \in Range(graph[p].childs)
          /\ graph' = remove_parametrized(graph, p, c)
          /\ last' = [op |-> "detach", exc |-> NoExc, p |-> p, c |-> c]
    /\ snap' = [snap EXCEPT !.dirty = TRUE]
    /\ UNCHANGED <<now, sd, fs, out, loaded, call, trav, evals>>

\* snapshot = sim.state_dict(); the caller keeps the one before it too
StateDictCall ==
    /\ LET r == Simulator_state_dict(graph, "sim")
       IN  /\ graph' = r.graph
           /\ snap' = [cur |-> r.ret, prev |-> snap.cur,
                       same |-> snap.cur.type # "none" /\ ~snap.dirty,
                       dirty |-> FALSE]
    /\ last' = Did("state_dict", NoExc)
    /\ UNCHANGED <<now, sd, fs, out, loaded, nops, call, trav, evals>>

NextSim ==
    \/ Attach
    \/ Detach
    \/ StateDictCall

SpecSim == InitSim /\ [][NextSim]_vars

\* result = sim(*args, **kwargs)
Call ==
    /\ \E in \in CallInputs :
          LET r == Simulator_call(graph, "sim", in.args, in.kwargs)
          IN  /\ call' = [events |-> r.events, exc |-> r.exc, ret |-> r.ret,
                          args |-> in]
              /\ graph' = r.graph
              /\ last' = Did("call", r.exc)
    /\ UNCHANGED <<now, sd, fs, out, loaded, nops, snap, trav, evals>>

\* The simulator called on the graphs the caller builds
NextCall ==
    \/ Attach
    \/ Call

SpecCall == InitSim /\ [][NextCall]_vars

\* snapshot = sim.state_dict(); the caller keeps this one only
Snapshot ==
    /\ LET r == Simulator_state_dict(graph, "sim")
       IN  /\ graph' = r.graph
           /\ snap' = [cur |-> r.ret, prev |-> NoResult,
                       same |-> FALSE, dirty |-> FALSE]
    /\ last' = Did("state_dict", NoExc)
    /\ UNCHANGED <<now, sd, fs, out, loaded, nops, call, trav, evals>>

\* an operation through the returned object: r is its [o, exc] outcome
ApplyProxy(op, name, r) ==
    /\ snap.cur.type # "none"
    /\ snap' = [snap EXCEPT !.cur = r.o]
    /\ last' = [op |-> op, exc |-> r.exc, m |-> name, k |-> <<>>, v |-> <<>>]
    /\ UNCHANGED <<now, sd, fs, out, loaded, graph, call, trav, evals>>

TopKeys == {<<"params">>, <<"_metadata">>}
ParamKeys == {<<"sim", ".", "z_s">>, <<"sim", ".", "x">>}
ProxyMetaKeys == {<<"software_version">>, <<"note">>}

\* o[name] = v
ProxySetItem ==
    /\ Step
    /\ \E name \in TopKeys :
          ApplyProxy("o.setitem", name, mappingproxy_setitem(snap.cur, name, "t2"))

\* del o[name]
ProxyDelItem ==
    /\ Step
    /\ \E name \in TopKeys :
          ApplyProxy("o.delitem", name, mappingproxy_delitem(snap.cur, name))

\* o["params"][k] = v
ProxyParamsSetItem ==
    /\ Step
    /\ \E k \in ParamKeys :
          ApplyProxy("o.params.setitem", <<"params">>,
                     dict_setitem(snap.cur, <<"params">>, k, "t2"))

\* del o["params"][k]
ProxyParamsDelItem ==
    /\ Step
    /\ \E k \in ParamKeys :
          ApplyProxy("o.params.delitem", <<"params">>,
                     dict_delitem(snap.cur, <<"params">>, k))

\* o["_metadata"][k] = v
ProxyMetaSetItem ==
    /\ Step
    /\ \E k \in ProxyMetaKeys :
          ApplyProxy("o.meta.setitem", <<"_metadata">>,
                     dict_setitem(snap.cur, <<"_metadata">>, k, <<"x">>))

\* del o["_metadata"][k]
ProxyMetaDelItem ==
    /\ Step
    /\ \E k \in ProxyMetaKeys :
          ApplyProxy("o.meta.delitem", <<"_metadata">>,
                     dict_delitem(snap.cur, <<"_metadata">>, k))

\* The modules as constructed, no parameter supplied
InitTrav ==
    /\ now = 0
    /\ sd = StateDict_init(<<>>, 0)
    /\ fs = {}
    /\ out = <<>>
    /\ loaded = NotLoaded
    /\ nops = 0
    /\ graph = Constructed(None, None, None)
    /\ snap = NoSnap
    /\ call = NoCall
    /\ trav = NoTrav
    /\ evals = NoEvals
    /\ last = Did("Sim", NoExc)

\* Snapshots and calls on the graphs the caller builds
NextPure ==
    \/ Attach
    \/ Snapshot
    \/ Call

SpecPure == InitTrav /\ [][NextPure]_vars

\* the caller builds the graph before it asks for the traversal order
Build ==
    /\ trav.pc = "idle"
    /\ Attach

\* _get_traversal_order(module) is entered: lines 101-103
TraversalStart ==
    /\ trav.pc = "idle"
    /\ \E module \in IdSet :
          trav' = [pc |-> "running", root |-> module, q |-> <<module>>, tq |-> <<>>]
    /\ last' = Did("_get_traversal_order", NoExc)
    /\ UNCHANGED <<now, sd, fs, out, loaded, nops, graph, snap, call, evals>>

\* one iteration of `while q`
TraversalStep ==
    /\ trav.pc = "running"
    /\ trav.q # <<>>
    /\ Len(trav.tq) < MaxVisits
    /\ LET r == traversal_step(graph, trav.q, trav.tq)
       IN  trav' = [trav EXCEPT !.q = r.q, !.tq = r.tq]
    /\ UNCHANGED <<now, sd, fs, last, out, loaded, nops, graph, snap, call, evals>>

\* q is empty: return list(tq)
TraversalReturn ==
    /\ trav.pc = "running"
    /\ trav.q = <<>>
    /\ trav' = [trav EXCEPT !.pc = "returned"]
    /\ last' = Did("return", NoExc)
    /\ UNCHANGED <<now, sd, fs, out, loaded, nops, graph, snap, call, evals>>

\* A graph is built, then its traversal order is computed iteration by
\* iteration; the thread that runs the loop keeps running
NextTrav ==
    \/ Build
    \/ TraversalStart
    \/ TraversalStep
    \/ TraversalReturn

SpecTrav ==
    /\ InitTrav
    /\ [][NextTrav]_vars
    /\ WF_vars(TraversalStep)
    /\ WF_vars(TraversalReturn)

\* The fixture simple_common_sim: cosmo = FlatLambdaCDM(h0, critical_density_0,
\* Om0), sim.cosmo = cosmo, sim.epl = EPL(cosmo), sim.add_param("z_s", 1.0)
Fixture(h0, critical_density_0, Om0) ==
    LET g0 == [Constructed(None, None, None) EXCEPT
                  !["cosmo"] = FlatLambdaCDM_init(h0, critical_density_0, Om0, <<"cosmo">>)]
        g1 == add_parametrized(g0, "lensA", "cosmo")
        g2 == add_parametrized(g1, "sim", "cosmo")
    IN  add_parametrized(g2, "sim", "lensA")

InitEdit ==
    /\ now = 0
    /\ sd = StateDict_init(<<>>, 0)
    /\ fs = {}
    /\ out = <<>>
    /\ loaded = NotLoaded
    /\ nops = 0
    /\ \E h0 \in {"t1", None}, cd0 \in {"t1", None}, Om0 \in {"t1", None} :
          /\ graph = Fixture(h0, cd0, Om0)
          /\ last = [op |-> "FlatLambdaCDM", exc |-> NoExc, m |-> "cosmo",
                     k |-> <<>>, v |-> <<h0, cd0, Om0>>]
    /\ snap = NoSnap
    /\ call = NoCall
    /\ trav = NoTrav
    /\ evals = NoEvals

\* the modules the caller edits and the names it registers
EditIds == {"sim", "cosmo", "lensA"}
NewNames == {<<"x">>, <<"z_s">>}

\* module.add_param(name, value)
AddParam ==
    /\ Step
    /\ \E name \in NewNames, value \in {"t2", None} :
          LET r == add_param(graph["sim"], name, value)
          IN  /\ graph' = [graph EXCEPT !["sim"] = r.mod]
              /\ last' = [op |-> "add_param", exc |-> r.exc, m |-> "sim",
                          k |-> name, v |-> <<value>>]
    /\ snap' = [snap EXCEPT !.dirty = TRUE]
    /\ UNCHANGED <<now, sd, fs, out, loaded, call, trav, evals>>

\* module.<k>.set_value(v) -- here written module.k = v
SetValue ==
    /\ Step
    /\ \E m \in EditIds :
          \E k \in KeysOf(graph[m].params) :
              /\ graph' = [graph EXCEPT ![m] = set_value(graph[m], k, "t2")]
              /\ last' = [op |-> "set_value", exc |-> NoExc, m |-> m,
                          k |-> k, v |-> <<"t2">>]
    /\ snap' = [snap EXCEPT !.dirty = TRUE]
    /\ UNCHANGED <<now, sd, fs, out, loaded, call, trav, evals>>

\* module.<k>.clear() -- here written module.k = None
ClearValue ==
    /\ Step
    /\ \E m \in EditIds :
          \E k \in KeysOf(graph[m].params) :
              /\ graph' = [graph EXCEPT ![m] = clear_value(graph[m], k)]
              /\ last' = [op |-> "clear_value", exc |-> NoExc, m |-> m,
                          k |-> k, v |-> <<None>>]
    /\ snap' = [snap EXCEPT !.dirty = TRUE]
    /\ UNCHANGED <<now, sd, fs, out, loaded, call, trav, evals>>

\* Parameters registered, set and cleared on the fixture's graph, and
\* snapshots of it
NextEdit ==
    \/ AddParam
    \/ SetValue
    \/ ClearValue
    \/ Snapshot

SpecEdit == InitEdit /\ [][NextEdit]_vars

\* A snapshot of the fixture's graph under the operations a caller can
\* apply through it
NextProxy ==
    \/ Snapshot
    \/ ProxySetItem
    \/ ProxyDelItem
    \/ ProxyParamsSetItem
    \/ ProxyParamsDelItem
    \/ ProxyMetaSetItem
    \/ ProxyMetaDelItem

SpecProxy == InitEdit /\ [][NextProxy]_vars

----------------------------------------------------------------------------
(* Evaluations of the cosmology by two threads over the one instance _func  *)

\* FlatLambdaCDM.py:204  _func = FlatLambdaCDM(h0=None,
\* critical_density_0=None, Om0=None), held in the graph as "cosmo"
InitEval ==
    /\ now = 0
    /\ sd = StateDict_init(<<>>, 0)
    /\ fs = {}
    /\ out = <<>>
    /\ loaded = NotLoaded
    /\ nops = 0
    /\ graph = [Constructed(None, None, None) EXCEPT
                   !["cosmo"] = FlatLambdaCDM_init(None, None, None, <<"cosmo">>)]
    /\ snap = NoSnap
    /\ call = NoCall
    /\ trav = NoTrav
    /\ evals = [t \in Threads |-> IdleEval]
    /\ last = Did("FlatLambdaCDM", NoExc)

\* a thread calls a module-level function with its values
EvalFunction ==
    /\ Step
    /\ \E t \in Threads, fn \in Functions, v \in SuppliedValues :
          LET r == FlatLambdaCDM_function(graph, fn, v[1], v[2], v[3])
          IN  /\ evals[t].pc \in {"idle", "done"}
              /\ graph' = r.graph
              /\ evals' = [evals EXCEPT ![t] =
                    [IdleEval EXCEPT !.pc = "called", !.fn = fn,
                                     !.method = r.method,
                                     !.supplied = Keywords(
                                         IF fn = "critical_density" THEN h0_default
                                         ELSE v[1], v[2], v[3]),
                                     !.kwargs = r.kwargs]]
    /\ last' = Did("function", NoExc)
    /\ UNCHANGED <<now, sd, fs, out, loaded, snap, call, trav>>

\* a thread packs its values for _func and calls a method with the
\* container, as a simulator's forward does
EvalMethod ==
    /\ Step
    /\ \E t \in Threads, method \in Functions, v \in SuppliedValues :
          LET x == [kind |-> "list",
                    v |-> [i \in 1..3 |-> [k |-> <<>>, v |-> v[i]]]]
              p == pack(graph, "cosmo", x)
          IN  /\ evals[t].pc \in {"idle", "done"}
              /\ p.exc = NoExc
              /\ evals' = [evals EXCEPT ![t] =
                    [IdleEval EXCEPT !.pc = "called", !.fn = "method",
                                     !.method = method,
                                     !.supplied = Keywords(v[1], v[2], v[3]),
                                     !.given = [by |-> "caller", c |-> p.packed]]]
    /\ last' = Did("method", NoExc)
    /\ UNCHANGED <<now, sd, fs, out, loaded, graph, snap, call, trav>>

\* the decorator of the method called resolves the thread's values
EvalEnter ==
    /\ \E t \in Threads :
          LET e == evals[t]
              w == unpack_wrapper(graph, "cosmo", e.method, e.given, e.kwargs)
          IN  /\ e.pc = "called"
              /\ evals' = [evals EXCEPT ![t].pc = "entered",
                                        ![t].packed = w.packed,
                                        ![t].exc = w.exc]
    /\ UNCHANGED <<now, sd, fs, last, out, loaded, nops, graph, snap, call, trav>>

\* the method's body runs, with the calls nested in it
EvalBody ==
    /\ \E t \in Threads :
          LET e == evals[t]
          IN  /\ e.pc = "entered"
              /\ evals' = [evals EXCEPT ![t].pc = "done",
                                        ![t].frames =
                                            IF e.exc # NoExc THEN <<>>
                                            ELSE Run(graph, "cosmo", e.method,
                                                     e.packed, e.kwargs)]
    /\ UNCHANGED <<now, sd, fs, last, out, loaded, nops, graph, snap, call, trav>>

NextEval ==
    \/ EvalFunction
    \/ EvalMethod
    \/ EvalEnter
    \/ EvalBody

SpecEval == InitEval /\ [][NextEval]_vars

----------------------------------------------------------------------------
(* Properties of the mutation interface (specification Spec)                *)

\* a step in which the caller applied operation op
Applied(op) == nops' = nops + 1 /\ last'.op = op

C2_ContentsNeverChange ==
    [][ (nops' = nops + 1 /\ last'.op # "StateDict") => sd'.items = sd.items ]_vars

\* C3: after the constructor returns, assigning or deleting a key of
\* sd._metadata raises TypeError, rebinding sd._metadata raises TypeError,
\* and the metadata mapping never changes.
C3_MetadataFrozen ==
    [][ (nops' = nops + 1 /\ last'.op # "StateDict") =>
          /\ sd'.meta = sd.meta
          /\ last'.op \in {"meta.setitem", "meta.delitem"} => last'.exc = IMMUTABLE_ERR
          /\ (last'.op = "setattr" /\ last'.name = "_metadata")
                => last'.exc = IMMUTABLE_ERR ]_vars

----------------------------------------------------------------------------
(* Properties of construction (specification SpecParams)                    *)

\* the qualified name of a parameter
Qualified(mod, e) == mod.name \o <<".">> \o e.k

\* name -> value over exactly the static parameters of a graph, module by
\* module and parameter by parameter
RECURSIVE StaticEntries(_)
StaticEntries(tree) ==
    IF tree = <<>> THEN <<>>
    ELSE LET mod == Head(tree)
             own == SelectSeq(mod.params, LAMBDA e : e.v.value # None)
         IN  [i \in DOMAIN own |->
                 [k |-> Qualified(mod, own[i]), v |-> own[i].v.value]]
             \o StaticEntries(Tail(tree))

DynamicNames(tree) ==
    UNION { { Qualified(tree[i], tree[i].params[j]) :
                j \in { j \in DOMAIN tree[i].params :
                            tree[i].params[j].v.value = None } }
            : i \in DOMAIN tree }

C5_FromParamsStaticOnly ==
    (last.op = "from_params" /\ last.form \in {"nested", "flat_static"}) =>
        /\ StateDictEq(sd, StateDict_init(StaticEntries(last.tree), now))
        /\ StateDictEq(StateDict_from_params(params(last.tree), now),
                       StateDict_from_params(FlatStatic(last.tree), now))
        /\ KeysOf(sd.items) \cap DynamicNames(last.tree) = {}

C5_Witness ==
    /\ last.op = "from_params"
    /\ last.form = "nested"
    /\ Cardinality(DynamicNames(last.tree)) = 1
    /\ Len(sd.items) = 2

\* C6: from_params fails, and creates no StateDict, when it is given a flat
\* mapping that contains a dynamic Parameter (value None).
C6_FlatDynamicRejected ==
    (last.op = "from_params" /\ last.form = "flat_all"
        /\ DynamicNames(last.tree) # {})
      => (last.exc # NoExc /\ \A i \in DOMAIN sd.items : sd.items[i].v # None)

\* C7: sd.to_params() is a flat mapping with the keys of sd in the same
\* order, every value a static Parameter holding the stored tensor; sd is
\* unchanged and from_params(sd.to_params()) == sd.
C7_ToParamsInverse ==
    [][ Applied("to_params") =>
          /\ sd' = sd
          /\ Len(out') = Len(sd.items)
          /\ \A i \in DOMAIN out' :
                /\ out'[i].k = sd.items[i].k
                /\ static(out'[i].v)
                /\ out'[i].v.value = sd.items[i].v
          /\ StateDictEq(StateDict_from_params([nested |-> FALSE, d |-> out'], now), sd)
      ]_vars

----------------------------------------------------------------------------
(* Properties of saving and loading (specification SpecIO)                  *)

\* the explicit paths whose suffix is not ".st"
WrongSuffix ==
    { <<"a", ".", "txt">>, <<"a">>, <<".", "st">>,
      <<"a", ".", "st", ".", "bak">>, <<"d", ".", "st", "/", "a">> }
\* save() called without a path
PathLess == {NoPath, EmptyStr}
Serializable(s) == \A i \in DOMAIN s.items : s.items[i].v \in Tensors
\* the file in the current directory named after the creation time of s
DefaultTarget(s) ==
    <<"/", "cwd", "/", ToString(s.ctime \div TicksPerSecond), "_caustics", ".", "st">>

\* C8: save with an explicit path (str or Path) whose suffix is not ".st"
\* raises the ValueError of the extension test before anything is serialized
\* or written: no file is created or overwritten and the StateDict is
\* unchanged.
C8_WrongSuffixRejected ==
    [][ (Applied("save") /\ last'.fp.kind \in {"str", "Path"}
            /\ last'.fp.p \in WrongSuffix)
          => (last'.exc = SUFFIX_ERR /\ fs' = fs /\ sd' = sd) ]_vars

C8_Witness ==
    /\ last.op = "save"
    /\ last.exc = SUFFIX_ERR
    /\ last.fp = [kind |-> "Path", p |-> <<"a", ".", "st", ".", "bak">>]
    /\ fs # {}

\* C9: save with no path (None or "") never fails the extension test; it
\* targets the file of the current directory named after the creation
\* timestamp of the StateDict, a name ending in ".st", and writes it whenever
\* the tensors serialize; two path-less saves of the same StateDict target
\* the same file whatever the time between them.
C9_PathLessSaveTarget ==
    [][ (Applied("save") /\ last'.fp \in PathLess) =>
          /\ last'.exc # SUFFIX_ERR
          /\ (last'.exc = NoExc) <=> Serializable(sd)
          /\ last'.exc = NoExc =>
                /\ last'.ret = DefaultTarget(sd)
                /\ SubSeq(last'.ret, Len(last'.ret) - 1, Len(last'.ret)) = <<".", "st">>
                /\ \E f \in fs' : f.path = last'.ret
                /\ \A f \in fs : f.path # last'.ret => f \in fs'
          /\ (last.op = "save" /\ last.fp \in PathLess
                /\ last.exc = NoExc /\ last'.exc = NoExc)
                => last'.ret = last.ret ]_vars

C9_Witness ==
    /\ last.op = "save"
    /\ last.fp = EmptyStr
    /\ last.exc = NoExc
    /\ Seconds(now) > Seconds(sd.ctime)
    /\ nops = 2
    /\ Cardinality(fs) = 1

----------------------------------------------------------------------------
(* Properties of the simulator's snapshot (specification SpecSim)           *)

\* the modules reachable from a set of modules through child references
RECURSIVE Closure(_, _)
Closure(g, S) ==
    LET T == S \cup {c \in IdSet : \E a \in S : c \in Range(g[a].childs)}
    IN  IF T = S THEN S ELSE Closure(g, T)

Reachable(g, r) == Closure(g, {r})
Descendants(g, a) == Closure(g, Range(g[a].childs))

\* <<qualified name, value>> of the static parameters of the modules
\* reachable from r, and the qualified names of their dynamic parameters
StaticPairs(g, r) ==
    UNION { { <<g[i].name \o <<".">> \o e.k, e.v.value>> :
                e \in {x \in Range(g[i].params) : x.v.value # None} }
            : i \in Reachable(g, r) }
StaticNamesOf(g, r) == { pr[1] : pr \in StaticPairs(g, r) }
DynamicNamesOf(g, r) ==
    UNION { { g[i].name \o <<".">> \o e.k :
                e \in {x \in Range(g[i].params) : x.v.value = None} }
            : i \in Reachable(g, r) }

\* the parts of a snapshot
SnapParams(o) == Get(o.d, <<"params">>)
SnapMeta(o) == json_loads(Get(Get(o.d, <<"_metadata">>), <<"state_metadata">>))
SnapOrder(o) == Get(SnapMeta(o), <<"module_order">>)
SnapClasses(o) == Get(SnapMeta(o), <<"class_maps">>)

IsTypeError(e) ==
    e \in {IMMUTABLE_ERR,
           "TypeError: 'mappingproxy' object does not support item assignment"}

\* C11: the object sim.state_dict() returns is a StateDict; read as a plain
\* dict it is {qualified name -> value} over the static parameters of the
\* whole graph under the simulator; its _metadata attribute holds
\* software_version and created_time; assigning a key of it raises TypeError.
C11_StateDictIsStateDict ==
    last.op = "state_dict" =>
        /\ IsStateDict(snap.cur)
        /\ Pairs(AsDict(snap.cur)) = StaticPairs(graph, "sim")
        /\ mappingproxy_getattr(snap.cur, "_metadata").exc = NoExc
        /\ {<<"software_version">>, <<"created_time">>}
              \subseteq KeysOf(Get(snap.cur.d, <<"_metadata">>))
        /\ IsTypeError(mappingproxy_setitem(snap.cur, <<"params">>, "t1").exc)

\* C12: the parameter names a snapshot records are exactly the qualified
\* names of the static parameters of the modules reachable from the
\* simulator: each of them has a key and no dynamic parameter has one.
C12_SnapshotNamesStatic ==
    last.op = "state_dict" =>
        /\ KeysOf(SnapParams(snap.cur)) = StaticNamesOf(graph, "sim")
        /\ KeysOf(SnapParams(snap.cur)) \cap DynamicNamesOf(graph, "sim") = {}
        /\ Len(SnapParams(snap.cur)) = Cardinality(StaticNamesOf(graph, "sim"))

C12_Witness ==
    /\ last.op = "state_dict"
    /\ Reachable(graph, "sim") = {"sim", "cosmo", "lensA"}
    /\ DynamicNamesOf(graph, "sim") = {<<"lens", ".", "einstein_radius">>}
    /\ Cardinality(StaticNamesOf(graph, "sim")) = 3

\* C13: when state_dict() is called twice and the graph is not mutated
\* between the calls, the two snapshots have equal tensor content, equal
\* module_order and equal class_maps.
C13_StateDictIdempotent ==
    snap.same =>
        /\ SnapParams(snap.cur) = SnapParams(snap.prev)
        /\ SnapOrder(snap.cur) = SnapOrder(snap.prev)
        /\ SnapClasses(snap.cur) = SnapClasses(snap.prev)

C13_Witness ==
    /\ snap.same
    /\ last.op = "state_dict"
    /\ Len(SnapOrder(snap.cur)) = 4
    /\ Len(SnapParams(snap.cur)) = 3
    /\ Len(SnapClasses(snap.prev)) = 3

\* the breadth-first dequeue order from a root, level by level: the root,
\* then the childs of each module of a level in registration order
RECURSIVE ChildsOfLevel(_, _)
ChildsOfLevel(g, level) ==
    IF level = <<>> THEN <<>>
    ELSE g[Head(level)].childs \o ChildsOfLevel(g, Tail(level))

RECURSIVE BreadthFirst(_, _)
BreadthFirst(g, level) ==
    IF level = <<>> THEN <<>>
    ELSE level \o BreadthFirst(g, ChildsOfLevel(g, level))

BreadthFirstNames(g, r) ==
    LET ids == BreadthFirst(g, <<r>>)
    IN  [i \in DOMAIN ids |-> g[ids[i]].name]

\* C14: _get_traversal_order(root) is the reverse of the breadth-first
\* dequeue order from root, so the root's name is its last element; the
\* module_order a snapshot stores is this list for the simulator.
C14_ReverseBreadthFirst ==
    /\ \A r \in IdSet :
          LET order == get_traversal_order(graph, r)
          IN  /\ order = Reverse(BreadthFirstNames(graph, r))
              /\ order[Len(order)] = graph[r].name
    /\ last.op = "state_dict" =>
          SnapOrder(snap.cur) = Reverse(BreadthFirstNames(graph, "sim"))

C14_Witness ==
    /\ last.op = "state_dict"
    /\ graph["sim"].childs = <<"lensA", "cosmo">>
    /\ graph["lensA"].childs = <<"lensB">>
    /\ SnapOrder(snap.cur) =
          << <<"lens", "_", "1">>, <<"cosmo">>, <<"lens">>, <<"sim">> >>

\* C15: in _get_traversal_order(root) no occurrence of the name of a
\* descendant comes after an occurrence of the name of one of its ancestors,
\* also when a module is attached under two parents.
C15_DescendantsFirst ==
    \A r \in IdSet :
        LET order == get_traversal_order(graph, r)
        IN  \A a \in Reachable(graph, r) :
                \A d \in Descendants(graph, a) :
                    ~ \E i, j \in DOMAIN order :
                          /\ i < j
                          /\ order[i] = graph[a].name
                          /\ order[j] = graph[d].name

----------------------------------------------------------------------------
(* Properties of the simulator call (specification SpecCall)                *)

EventsOf(c, ev) == {i \in DOMAIN c.events : c.events[i].ev = ev}
NoArguments == [args |-> <<>>, kwargs |-> <<>>]
KeywordOnly == [args |-> <<>>, kwargs |-> <<[k |-> ER, v |-> "t1"]>>]

\* C16: in a simulator call pack is called first and has returned before
\* forward is called, forward is given the container pack returned, and when
\* pack raises forward is not called at all and the call raises, returning
\* nothing.
C16_PackBeforeForward ==
    last.op = "call" =>
        /\ call.events[1].ev = "pack"
        /\ \A i \in EventsOf(call, "forward") :
              /\ \E j \in EventsOf(call, "pack returned") : j < i
              /\ call.events[i].packed =
                    pack(graph, "sim", call.events[1].x).packed
        /\ EventsOf(call, "pack raised") # {} =>
              /\ EventsOf(call, "forward") = {}
              /\ call.exc # NoExc
              /\ call.ret = <<>>
        /\ EventsOf(call, "pack raised") = {} =>
              Cardinality(EventsOf(call, "forward")) = 1

C16_Witness ==
    /\ last.op = "call"
    /\ call.exc = EXCESS_ERR
    /\ EventsOf(call, "pack raised") = {2}
    /\ Len(call.events) = 2
    /\ "lensA" \in Reachable(graph, "sim")

\* C17: with einstein_radius of the lens the only dynamic parameter of the
\* graph, the call sim(einstein_radius=v) succeeds: pack resolves the
\* parameter to v and the lens computes with einstein_radius = v.
C17_KeywordResolvesDynamic ==
    (last.op = "call" /\ call.args = KeywordOnly
        /\ DynamicNamesOf(graph, "sim") = {<<"lens", ".", "einstein_radius">>})
      => /\ call.exc = NoExc
         /\ \E i \in EventsOf(call, "forward") :
               \E j \in DOMAIN call.events[i].packed.values :
                   call.events[i].packed.values[j] =
                       [m |-> <<"lens">>, k |-> ER, v |-> "t1"]
         /\ HasKey(call.ret, <<"lens">>)
         /\ Get(Get(call.ret, <<"lens">>), ER) = "t1"

\* C18: on a graph with at least one dynamic parameter, sim() with no
\* arguments raises the missing-parameter error, forward is not run and no
\* value is returned.
C18_NoArgsDynamicFails ==
    (last.op = "call" /\ call.args = NoArguments
        /\ DynamicNamesOf(graph, "sim") # {})
      => /\ call.exc = MISSING_ERR
         /\ EventsOf(call, "forward") = {}
         /\ call.ret = <<>>

C18_Witness ==
    /\ last.op = "call"
    /\ call.args = NoArguments
    /\ call.exc = MISSING_ERR
    /\ DynamicNamesOf(graph, "sim") = {<<"cosmo", ".", "h0">>}
    /\ graph["lensA"].childs = <<"cosmo">>
    /\ graph["sim"].childs = <<"lensA">>

\* C19: on a graph whose parameters are all static, sim() with no arguments
\* succeeds and the Packed container forward receives names the modules in
\* the order of the module_order state_dict() reports, which is
\* _get_traversal_order(sim); it holds no dynamic value.
C19_PackOrderIsModuleOrder ==
    (last.op = "call" /\ call.args = NoArguments
        /\ DynamicNamesOf(graph, "sim") = {})
      => /\ call.exc = NoExc
         /\ \A i \in EventsOf(call, "forward") :
               /\ call.events[i].packed.order =
                     SnapOrder(Simulator_state_dict(graph, "sim").ret)
               /\ call.events[i].packed.order = get_traversal_order(graph, "sim")
               /\ call.events[i].packed.values = <<>>
         /\ EventsOf(call, "forward") # {}

C19_Witness ==
    /\ last.op = "call"
    /\ call.args = NoArguments
    /\ call.exc = NoExc
    /\ graph["sim"].childs = <<"cosmo", "lensA">>
    /\ graph["lensA"].childs = <<"cosmo">>
    /\ call.events[3].packed.order =
          << <<"cosmo">>, <<"lens">>, <<"cosmo">>, <<"sim">> >>

----------------------------------------------------------------------------
(* Properties of naming (specification SpecSim)                             *)

\* base_k for the least k >= 1 such that base_k is not among names
FirstFree(base, names) ==
    LET free(k) == base \o <<"_", ToString(k)>> \notin names
        least == CHOOSE k \in 1..(Cardinality(names) + 1) :
                     free(k) /\ \A j \in 1..(k - 1) : ~free(j)
    IN  base \o <<"_", ToString(least)>>

Lenses == {"lensA", "lensB"}

\* C21: the name an attached child ends with depends only on its base name
\* and the names already in the parent's graph: its own name when that is
\* free, else the first free base_k; two children of base name "lens"
\* attached one after the other to one parent are named "lens" and "lens_1"
\* in attachment order.
C21_RenameDeterministic ==
    [][ Applied("attach") =>
          LET p == last'.p
              c == last'.c
              names == Names(graph, Component(graph, p))
          IN  /\ graph'[c].name =
                    IF c \notin Component(graph, p) /\ graph[c].name \in names
                    THEN FirstFree(graph[c].base, names)
                    ELSE graph[c].name
              /\ ( /\ last.op = "attach"
                    /\ last.p = p
                    /\ {last.c, c} = Lenses
                    /\ graph[last.c].name = <<"lens">>
                    /\ graph[c].name = <<"lens">>
                    /\ c \notin Component(graph, p) )
                  => /\ graph'[last.c].name = <<"lens">>
                     /\ graph'[c].name = <<"lens", "_", "1">> ]_vars

C21_Witness ==
    /\ last.op = "attach"
    /\ last.p = "cosmo"
    /\ graph["cosmo"].childs = <<"lensB", "lensA">>
    /\ graph["lensB"].name = <<"lens">>
    /\ graph["lensA"].name = <<"lens", "_", "1">>
    /\ nops = 2

\* the first positional argument of the last call, when there is one
Supplied == call.args.args[1]
HasSupplied == last.op = "call" /\ Len(call.args.args) > 0

\* the call ended in an error and produced no container: pack raised, and
\* forward was not run
Rejected ==
    /\ call.exc \in {MISSING_ERR, EXCESS_ERR}
    /\ EventsOf(call, "pack returned") = {}
    /\ EventsOf(call, "forward") = {}
    /\ call.ret = <<>>

\* the container forward was given
Forwarded == call.events[CHOOSE i \in EventsOf(call, "forward") : TRUE].packed

\* C23: a call with a list of values succeeds exactly when the list has one
\* value per dynamic parameter, and then slot i of the container holds value
\* i; a call with a dict succeeds exactly when its keys are the dynamic
\* parameters' names, and then each slot holds the value under its name.
\* Fewer values raise the missing-parameter error, more raise the
\* excess-values error, and no container is produced.
C23_PackExactMatch ==
    HasSupplied =>
      LET x == Supplied
          dyn == DynamicList(graph, "sim")
          names == {dyn[i].k : i \in DOMAIN dyn}
      IN  /\ x.kind = "list" =>
                /\ Len(x.v) < Len(dyn) => Rejected /\ call.exc = MISSING_ERR
                /\ Len(x.v) > Len(dyn) => Rejected /\ call.exc = EXCESS_ERR
                /\ Len(x.v) = Len(dyn) =>
                      /\ call.exc = NoExc
                      /\ EventsOf(call, "forward") # {}
                      /\ Len(Forwarded.values) = Len(dyn)
                      /\ \A i \in DOMAIN dyn : Forwarded.values[i].v = x.v[i].v
          /\ x.kind = "dict" =>
                /\ names \ KeysOf(x.v) # {} => Rejected /\ call.exc = MISSING_ERR
                /\ (names \subseteq KeysOf(x.v) /\ KeysOf(x.v) \ names # {})
                      => Rejected /\ call.exc = EXCESS_ERR
                /\ KeysOf(x.v) = names =>
                      /\ call.exc = NoExc
                      /\ EventsOf(call, "forward") # {}
                      /\ Len(Forwarded.values) = Len(dyn)
                      /\ \A i \in DOMAIN dyn :
                            Forwarded.values[i].v = Get(x.v, dyn[i].k)

C23_Witness ==
    /\ HasSupplied
    /\ Supplied.kind = "list"
    /\ Len(Supplied.v) = 2
    /\ Len(DynamicList(graph, "sim")) = 1
    /\ call.exc = EXCESS_ERR

----------------------------------------------------------------------------
(* Properties of the parameter namespace (specification SpecParams)         *)

\* the qualified names of a nested namespace, module after module and, in a
\* module, parameter after parameter
RECURSIVE QualifiedNames(_)
QualifiedNames(nested) ==
    IF nested = <<>> THEN <<>>
    ELSE [i \in DOMAIN Head(nested).v |->
             Head(nested).k \o <<".">> \o Head(nested).v[i].k]
         \o QualifiedNames(Tail(nested))

KeySeq(m) == [i \in DOMAIN m |-> m[i].k]

\* C24: for the static and for the dynamic namespace of a module tree,
\* unflatten(flatten(x)) = x, and flatten(unflatten(f)) = f for its flat
\* form; the flat keys come in traversal order; and the parameters restored
\* from the StateDict that from_params builds of the tree unflatten to the
\* tree's static namespace.
C24_FlattenRoundTrip ==
    last.op = "from_params" =>
      LET xs == Group(last.tree, TRUE)
          xd == Group(last.tree, FALSE)
      IN  /\ unflatten(flatten(xs)) = xs
          /\ unflatten(flatten(xd)) = xd
          /\ flatten(unflatten(flatten(xs))) = flatten(xs)
          /\ KeySeq(flatten(xs)) = QualifiedNames(xs)
          /\ KeySeq(flatten(xd)) = QualifiedNames(xd)
          /\ last.form \in {"nested", "flat_static"}
                => unflatten(StateDict_to_params(sd)) = xs

C24_Witness ==
    /\ last.op = "from_params"
    /\ last.form = "nested"
    /\ Len(Group(last.tree, TRUE)) = 2
    /\ Len(Group(last.tree, FALSE)) = 1
    /\ Len(sd.items) = 2

----------------------------------------------------------------------------
(* Properties of the traversal order's content (specification SpecSim)      *)

\* C29: _get_traversal_order(root) names every module reachable from root
\* exactly once, also when a module is attached under two parents, and the
\* set of its names is the key set of the class_maps of the same root.
C29_EachModuleOnce ==
    \A r \in IdSet :
        LET order == get_traversal_order(graph, r)
        IN  /\ Range(order) = Names(graph, Reachable(graph, r))
            /\ Range(order) = KeysOf(module_classes(graph, r))
            /\ Len(order) = Cardinality(Reachable(graph, r))
            /\ \A i, j \in DOMAIN order : i # j => order[i] # order[j]

----------------------------------------------------------------------------
(* Purity of calls and snapshots (specification SpecPure)                   *)

\* C25: a step that runs sim(...) (pack, then forward) or sim.state_dict()
\* (with _module_classes and _get_traversal_order) leaves every module's
\* name, childs and parameter values as they were, and with them which
\* parameters are static and which dynamic.
C25_CallsArePure ==
    [][ last'.op \in {"call", "state_dict"} /\ nops' = nops =>
          /\ \A i \in IdSet :
                /\ graph'[i].name = graph[i].name
                /\ graph'[i].childs = graph[i].childs
                /\ graph'[i].params = graph[i].params
          /\ StaticNamesOf(graph', "sim") = StaticNamesOf(graph, "sim")
          /\ DynamicNamesOf(graph', "sim") = DynamicNamesOf(graph, "sim") ]_vars

C25_Witness ==
    /\ last.op = "call"
    /\ call.exc = NoExc
    /\ EventsOf(call, "forward") # {}
    /\ snap.cur.type # "none"
    /\ ~snap.dirty
    /\ graph["sim"].childs = <<"cosmo", "lensA">>
    /\ graph["lensA"].childs = <<"cosmo">>
    /\ DynamicNamesOf(graph, "sim") # {}

----------------------------------------------------------------------------
(* Static and dynamic parameters (specification SpecEdit)                   *)

\* the static and the dynamic set of the graph under the simulator, as the
\* params accessor and flatten give them
StaticSet == KeysOf(flatten(Get(params(ModuleSeq(graph, "sim")).d, STATIC_PARAMS)))
DynamicSet == KeysOf(flatten(Get(params(ModuleSeq(graph, "sim")).d, <<"dynamic">>)))

\* the value of parameter k of module m
ValueOf(g, m, k) == Get(g[m].params, k).value

C22_Partition ==
    /\ StaticSet \cap DynamicSet = {}
    /\ \A m \in Reachable(graph, "sim") :
          \A k \in KeysOf(graph[m].params) :
              LET q == graph[m].name \o <<".">> \o k
              IN  /\ q \in StaticSet <=> ValueOf(graph, m, k) # None
                  /\ q \in DynamicSet <=> ValueOf(graph, m, k) = None
    /\ last.op = "state_dict" =>
          /\ KeysOf(SnapParams(snap.cur)) = StaticSet
          /\ \A e \in Range(SnapParams(snap.cur)) : e.v # None
    /\ last.op = "FlatLambdaCDM" =>
          /\ KeySeq(graph["cosmo"].params) =
                << <<"h0">>, <<"critical_density_0">>, <<"Om0">> >>
          /\ \A i \in 1..3 :
                LET q == graph["cosmo"].name \o <<".">> \o graph["cosmo"].params[i].k
                IN  /\ q \in StaticSet <=> last.v[i] # None
                    /\ q \in DynamicSet <=> last.v[i] = None
    /\ (last.op = "add_param" /\ last.exc = NoExc) =>
          LET q == graph[last.m].name \o <<".">> \o last.k
          IN  /\ q \in StaticSet <=> last.v[1] # None
              /\ q \in DynamicSet <=> last.v[1] = None

C22_Moves ==
    \A m \in IdSet :
        \A k \in KeysOf(graph[m].params) \cap KeysOf(graph'[m].params) :
            (ValueOf(graph, m, k) = None) # (ValueOf(graph', m, k) = None)
              => /\ last'.op \in {"set_value", "clear_value"}
                 /\ last'.m = m
                 /\ last'.k = k

\* C22: the static and the dynamic set of the graph are disjoint and cover
\* its parameters, a parameter being static iff its value is not None and
\* dynamic iff it is None (a snapshot records exactly the static ones); a
\* parameter registered by the constructor or by add_param with a value is
\* static, one registered with None dynamic; and a parameter changes sets
\* only in a set-value or clear-value step on that parameter.
C22_StaticDynamicPartition == []C22_Partition /\ [][C22_Moves]_vars

C22_Witness ==
    /\ last.op = "state_dict"
    /\ HasKey(graph["sim"].params, <<"x">>)
    /\ ValueOf(graph, "sim", <<"x">>) = None
    /\ ValueOf(graph, "cosmo", <<"h0">>) = "t2"
    /\ ValueOf(graph, "cosmo", <<"Om0">>) = None
    /\ <<"cosmo", ".", "h0">> \in StaticSet
    /\ <<"sim", ".", "x">> \in DynamicSet
    /\ nops = 3

----------------------------------------------------------------------------
(* The returned snapshot under mutation (specification SpecProxy)           *)

\* C28: no operation through the object state_dict() returned -- on the
\* object, on its 'params' mapping or on its '_metadata' mapping -- adds,
\* removes or replaces a recorded entry: the object is the same after the
\* operation as before it.
C28_SnapshotReadOnly ==
    [][ (Applied("o.setitem") \/ Applied("o.delitem")
           \/ Applied("o.params.setitem") \/ Applied("o.params.delitem")
           \/ Applied("o.meta.setitem") \/ Applied("o.meta.delitem"))
          => snap'.cur = snap.cur ]_vars

----------------------------------------------------------------------------
(* Termination of the traversal (specification SpecTrav)                    *)

\* C30: every _get_traversal_order call that is entered, on any graph the
\* attachments build and from any module as root, reaches the point where
\* its work queue is empty and returns its list, which is the list the
\* function computes for that root.
C30_TraversalTerminates ==
    (trav.pc = "running")
        ~> ( /\ trav.pc = "returned"
             /\ trav.q = <<>>
             /\ trav.tq = get_traversal_order(graph, trav.root) )

C30_Witness ==
    /\ trav.pc = "returned"
    /\ trav.root = "sim"
    /\ graph["sim"].childs = <<"cosmo", "lensA">>
    /\ graph["lensA"].childs = <<"cosmo">>
    /\ Len(trav.tq) = 4

----------------------------------------------------------------------------
(* Properties of the evaluations (specification SpecEval)                   *)

\* C26: whatever the interleaving of the two threads' evaluations over
\* _func, an evaluation that has finished raised nothing and every method
\* it ran computed with exactly the values supplied to that evaluation; and
\* no call stores a value in _func, whose three parameters are dynamic in
\* every state.
C26_EvaluationsDoNotInterfere ==
    /\ \A k \in KeysOf(graph["cosmo"].params) : ValueOf(graph, "cosmo", k) = None
    /\ KeySeq(graph["cosmo"].params) =
          << <<"h0">>, <<"critical_density_0">>, <<"Om0">> >>
    /\ \A t \in Threads :
          evals[t].pc = "done" =>
              /\ evals[t].exc = NoExc
              /\ evals[t].frames # <<>>
              /\ \A i \in DOMAIN evals[t].frames :
                    /\ evals[t].frames[i].exc = NoExc
                    /\ evals[t].frames[i].values = evals[t].supplied

C26_Witness ==
    /\ evals["A"].pc = "done"
    /\ evals["A"].fn = "critical_surface_density"
    /\ evals["B"].pc = "entered"
    /\ evals["B"].fn = "comoving_distance"
    /\ evals["A"].supplied # evals["B"].supplied
    /\ Len(evals["A"].frames) > 1

\* C27: in an evaluation that has finished, every method that ran -- the
\* one called and every one nested in it, down to the innermost -- received
\* the one container resolved for the call (the caller's own when it passed
\* one) and computed with the values that container gives.
C27_ContainerForwarded ==
    \A t \in Threads :
        evals[t].pc = "done" =>
            LET f == evals[t].frames
            IN  /\ f # <<>>
                /\ f[1].params = evals[t].packed
                /\ evals[t].given.by # "none" => f[1].params = evals[t].given
                /\ \A i \in DOMAIN f :
                      /\ f[i].exc = NoExc
                      /\ f[i].params = f[1].params
                      /\ f[i].values = unpack(graph, "cosmo", evals[t].packed.c)

C27_Witness ==
    /\ evals["A"].pc = "done"
    /\ evals["A"].fn = "method"
    /\ evals["A"].method = "time_delay_distance"
    /\ evals["A"].given.by = "caller"
    /\ Len(evals["A"].frames) = 17
    /\ evals["A"].frames[17].method = "_comoving_distance_helper"

====
